---- MODULE Spec2Model ----
(***************************************************************************)
(* A model of tracking-updater: the directory watcher, the deduplicating   *)
(* dispatch queue, the worker pool with its CSV parser, the record         *)
(* validator and the retrying Magento client.                              *)
(*                                                                         *)
(* Five specifications share the module:                                   *)
(*   Spec          the pipeline (main, watch loop, startup sweep, workers) *)
(*   SpecParse     processCSVFile on one file: the row loop and verdict    *)
(*   SpecHeader    processCSVFile on one file: every header                *)
(*   SpecValidate  TrackingInfo.Validate on one record                     *)
(*   SpecRequest   MagentoClient.doRequest on one request                  *)
(***************************************************************************)
EXTENDS Integers, Sequences, FiniteSets, TLC

(***************************************************************************)
(* Bounds of the model.                                                    *)
(***************************************************************************)
\* distinct file paths the environment can drop into the watched directory
NumPaths == 2
\* largest file_watch.max_concurrency tried (the configuration may hold 0)
MaxWorkers == 2
\* capacity of workChan; the program uses 100 (csv.go:35), scaled down here
WorkChanCap == 1
\* largest rowCount / errorCount a file reaches in the pipeline
MaxRows == 1

Paths == 1..NumPaths
Workers == 1..MaxWorkers
Producers == {"loop", "sweep"}

VARIABLES
    \* ---- cmd/server/main.go
    mainPc,          \* where main() is
    maxConcurrency,  \* cfg.FileWatch.MaxConcurrency
    panicked,        \* a goroutine panicked: the process is gone
    \* ---- internal/file/watcher.go
    isRunning,       \* Watcher.isRunning
    stopChan,        \* "open" or "closed"
    fsWatcher,       \* the fsnotify watcher: "open" or "closed"
    prodPc,          \* position of the watch loop and of the startup sweep
    prodPath,        \* the path each of them is handling (a set of <= 1 path)
    sweepFiles,      \* files of the Glob still to be visited by the sweep
    \* ---- internal/processor/csv.go
    processedFiles,  \* the ledger
    workChan,        \* buffered channel of paths
    chanClosed,      \* close(workChan) happened
    mutex,           \* "free" or the producer holding CSVProcessor.mutex
    wPc,             \* position of each worker
    wFile,           \* the path a worker took from workChan (a set of <= 1)
    rowCount,        \* processCSVFile's rowCount, per worker
    errorCount,      \* processCSVFile's errorCount, per worker
    success,         \* processCSVFile's return value, per worker
    wHeader,         \* the header row processCSVFile read, per worker
    \* ---- history of the run (observers, not program state)
    enqCount,        \* path -> number of sends on workChan
    parseCount,      \* path -> number of processCSVFile calls
    relocCount,      \* path -> number of os.Rename attempts
    outcome,         \* path -> "none", or where the rename left the file:
                     \*   "processed", "failed", "left" (the rename failed)
    closedBusy,      \* at close(workChan) a path was queued or in a worker's hands
    \* ---- model.TrackingInfo.Validate on one record
    trackingInfo,    \* the record: four fields, each a sequence of characters
    validateErr,     \* "pending", "nil" or the error message returned
    \* ---- api.MagentoClient.doRequest on one request
    maxRetries,      \* c.maxRetries
    backoff,         \* c.backoff, in units of time
    req,             \* the *http.Request as it is now: method, url, body
    attempts,        \* the local attempts
    reqPc,           \* "loop" (at the head of the for) or "done"
    ret,             \* what doRequest returned, "none" before
    sent,            \* history: the request as passed to httpClient.Do, per attempt
    results,         \* history: what each Do returned
    sleeps,          \* history: the durations passed to time.Sleep
    \* ---- CSVProcessor.processRow on the rows of worker 1's file
    fileRows,        \* the rows of the file that reader.Read() can parse
    rowPc,           \* where processRow is, "idle" outside of it
    rowErr,          \* what processRow returns: "nil" or the error
    order,           \* *model.MagentoOrder of the lookup: a set of <= 1 EntityID
    shipments,       \* []model.MagentoShipment of the lookup: their EntityIDs
    issued,          \* history: the remote calls of this row, with arguments
    calls,           \* history: the remote calls of the file, <<row, operation, returned>>
    \* ---- the worker step by step
    renames,         \* history: path -> the destination os.Rename was called with
    \* ---- the watcher step by step, and the watched directory
    filePattern,     \* Watcher.filePattern, the compiled cfg.FilePattern
    fileStat,        \* path -> what os.Stat(path) returns now
    changes,         \* number of changes made to the directory since Start
    targetInfo,      \* isTargetFile's fileInfo, per producer ("none" before)
    initialInfo,     \* isFileReady's initialInfo, per producer
    currentInfo,     \* isFileReady's currentInfo, per producer
    unstableDrops,   \* history: paths isFileReady found changed between its stats
    errSeen,         \* history: the watch loop logged a notification error
    \* ---- the csv.Reader of worker 1's file
    unread           \* lines of the file the reader has not consumed yet

mainVars == <<mainPc, maxConcurrency, panicked>>
watchVars == <<isRunning, stopChan, fsWatcher, prodPc, prodPath, sweepFiles>>
queueVars == <<processedFiles, workChan, chanClosed, mutex>>
workerVars == <<wPc, wFile, rowCount, errorCount, success, wHeader>>
histVars == <<enqCount, parseCount, relocCount, outcome, closedBusy>>
pipeVars == <<mainVars, watchVars, queueVars, workerVars, histVars>>

valVars == <<trackingInfo, validateErr>>
reqVars == <<maxRetries, backoff, req, attempts, reqPc, ret, sent, results, sleeps>>
rowVars == <<fileRows, rowPc, rowErr, order, shipments, issued, calls>>
\* what the pipeline leaves alone
fsVars == <<filePattern, fileStat, changes, targetInfo, initialInfo, currentInfo,
            unstableDrops, errSeen>>

sideVars == <<valVars, reqVars, rowVars, renames, fsVars, unread>>

vars == <<pipeVars, valVars, reqVars, rowVars, renames, fsVars, unread>>

(***************************************************************************)
(* Helpers.                                                                *)
(***************************************************************************)
RECURSIVE SortedSeq(_)
\* filepath.Glob returns the matches in lexical order
SortedSeq(S) ==
    IF S = {} THEN <<>>
    ELSE LET m == CHOOSE x \in S : \A y \in S : x <= y
         IN <<m>> \o SortedSeq(S \ {m})

Range(s) == {s[i] : i \in 1..Len(s)}

\* the process runs: no panic, main has not returned, no log.Fatal
Alive == ~panicked /\ mainPc \notin {"done", "fatal"}

\* csv.go:177. float64 division: x/0 is +Inf (x > 0) or NaN (x = 0), and
\* neither compares below 0.05; otherwise e/r < 0.05 iff 100e < 5r.
RateBelowThreshold(e, r) == IF r = 0 THEN FALSE ELSE 100 * e < 5 * r

\* a threshold test written with <= instead of <
JudgeFileAtMost(e, r) == e = 0 \/ (r # 0 /\ 100 * e <= 5 * r)

\* csv.go:177, the verdict of processCSVFile
JudgeFile(e, r) == e = 0 \/ RateBelowThreshold(e, r)

(***************************************************************************)
(* The header row (csv.go:130-142, 180-211).                               *)
(***************************************************************************)
RequiredColumns == {"order_number", "tracking_number", "carrier_code", "title"}
ColumnNames == RequiredColumns \cup {"extra"}

NoIndices == [orderNumber |-> -1, trackingNumber |-> -1, carrierCode |-> -1, title |-> -1]

RECURSIVE ScanHeader(_, _, _)
\* the range loop of getColumnIndices; Go's indices start at 0
ScanHeader(header, i, indices) ==
    IF i > Len(header) THEN indices
    ELSE ScanHeader(header, i + 1,
            CASE header[i] = "order_number" -> [indices EXCEPT !.orderNumber = i - 1]
              [] header[i] = "tracking_number" -> [indices EXCEPT !.trackingNumber = i - 1]
              [] header[i] = "carrier_code" -> [indices EXCEPT !.carrierCode = i - 1]
              [] header[i] = "title" -> [indices EXCEPT !.title = i - 1]
              [] OTHER -> indices)

getColumnIndices(header) == ScanHeader(header, 1, NoIndices)

\* a header check that forgets the carrier_code column
HasRequiredColumnsNoCarrier(indices) ==
    ~(indices.orderNumber = -1 \/ indices.trackingNumber = -1 \/ indices.title = -1)

\* csv.go:139, negated: the header passes
HasRequiredColumns(indices) ==
    ~(indices.orderNumber = -1 \/ indices.trackingNumber = -1
        \/ indices.carrierCode = -1 \/ indices.title = -1)

\* the headers the files of the pipeline carry
PipeHeaders ==
    { <<"order_number", "tracking_number", "carrier_code", "title">>,
      <<"title", "order_number", "tracking_number">> }

(***************************************************************************)
(* Initial state of the pipeline: main() before csvProcessor.Start.        *)
(***************************************************************************)
InitPipe ==
    /\ mainPc = "init"
    /\ maxConcurrency \in 0..MaxWorkers
    /\ panicked = FALSE
    /\ isRunning = FALSE
    /\ stopChan = "open"
    /\ fsWatcher = "open"
    /\ prodPc = [q \in Producers |-> "unborn"]
    /\ prodPath = [q \in Producers |-> {}]
    /\ sweepFiles = <<>>
    /\ processedFiles = {}
    /\ workChan = <<>>
    /\ chanClosed = FALSE
    /\ mutex = "free"
    /\ wPc = [w \in Workers |-> "unborn"]
    /\ wFile = [w \in Workers |-> {}]
    /\ rowCount = [w \in Workers |-> 0]
    /\ errorCount = [w \in Workers |-> 0]
    /\ success = [w \in Workers |-> FALSE]
    /\ wHeader = [w \in Workers |-> <<>>]
    /\ enqCount = [p \in Paths |-> 0]
    /\ parseCount = [p \in Paths |-> 0]
    /\ relocCount = [p \in Paths |-> 0]
    /\ outcome = [p \in Paths |-> "none"]
    /\ closedBusy = FALSE

(***************************************************************************)
(* main() (cmd/server/main.go) with CSVProcessor.Start/Stop and            *)
(* Watcher.Start/Stop, which it calls.  The deferred calls run in reverse  *)
(* order: fileWatcher.Stop(), then csvProcessor.Stop().                    *)
(***************************************************************************)
\* a Start whose loop runs once too often (i <= MaxConcurrency)
ProcessorStartOneMore ==
    /\ Alive /\ mainPc = "init"
    /\ wPc' = [w \in Workers |-> IF w <= maxConcurrency + 1 THEN "recv" ELSE "unborn"]
    /\ mainPc' = "procStarted"
    /\ UNCHANGED <<maxConcurrency, panicked, watchVars, queueVars, histVars,
                   wFile, rowCount, errorCount, success, wHeader>>
    /\ UNCHANGED sideVars

\* csvProcessor.Start(): one worker goroutine per unit of MaxConcurrency
ProcessorStart ==
    /\ Alive /\ mainPc = "init"
    /\ wPc' = [w \in Workers |-> IF w <= maxConcurrency THEN "recv" ELSE "unborn"]
    /\ mainPc' = "procStarted"
    /\ UNCHANGED <<maxConcurrency, panicked, watchVars, queueVars, histVars,
                   wFile, rowCount, errorCount, success, wHeader>>
    /\ UNCHANGED sideVars

\* file.NewWatcher and fileWatcher.Start() succeed: both goroutines start
WatcherStart ==
    /\ Alive /\ mainPc = "procStarted" /\ ~isRunning
    /\ isRunning' = TRUE
    /\ prodPc' = [loop |-> "select", sweep |-> "glob"]
    /\ mainPc' = "running"
    /\ UNCHANGED <<maxConcurrency, panicked, stopChan, fsWatcher, prodPath, sweepFiles,
                   queueVars, workerVars, histVars>>
    /\ UNCHANGED sideVars

\* NewWatcher, MkdirAll or watcher.Add fails: log.Fatal exits the process
WatcherStartFail ==
    /\ Alive /\ mainPc = "procStarted"
    /\ mainPc' = "fatal"
    /\ UNCHANGED <<maxConcurrency, panicked, watchVars, queueVars, workerVars, histVars>>
    /\ UNCHANGED sideVars

\* SIGINT / SIGTERM arrived and main returns: the deferred fileWatcher.Stop()
\* runs; its first half is close(w.stopChan)
WatcherStop ==
    /\ Alive /\ mainPc = "running" /\ isRunning
    /\ stopChan' = "closed"
    /\ mainPc' = "closingWatcher"
    /\ UNCHANGED <<maxConcurrency, panicked, isRunning, fsWatcher, prodPc, prodPath,
                   sweepFiles, queueVars, workerVars, histVars>>
    /\ UNCHANGED sideVars

\* Watcher.Stop, second half: w.watcher.Close(); w.isRunning = false
WatcherStopClose ==
    /\ Alive /\ mainPc = "closingWatcher"
    /\ fsWatcher' = "closed"
    /\ isRunning' = FALSE
    /\ mainPc' = "watcherStopped"
    /\ UNCHANGED <<maxConcurrency, panicked, stopChan, prodPc, prodPath, sweepFiles,
                   queueVars, workerVars, histVars>>
    /\ UNCHANGED sideVars

\* CSVProcessor.Stop, first half: close(p.workChan)
ProcessorStop ==
    /\ Alive /\ mainPc = "watcherStopped"
    /\ chanClosed' = TRUE
    /\ closedBusy' = (workChan # <<>> \/ \E w \in Workers : wFile[w] # {})
    /\ mainPc' = "waiting"
    /\ UNCHANGED <<maxConcurrency, panicked, watchVars, processedFiles, workChan, mutex,
                   workerVars, enqCount, parseCount, relocCount, outcome>>
    /\ UNCHANGED sideVars

\* CSVProcessor.Stop, second half: p.wg.Wait() returns, then main returns
ProcessorStopWait ==
    /\ Alive /\ mainPc = "waiting"
    /\ \A w \in Workers : wPc[w] \in {"unborn", "exited"}
    /\ mainPc' = "done"
    /\ UNCHANGED <<maxConcurrency, panicked, watchVars, queueVars, workerVars, histVars>>
    /\ UNCHANGED sideVars

(***************************************************************************)
(* Watcher.watchLoop and handleEvent (watcher.go:93-137).  The file system *)
(* belongs to the environment: what os.Stat reports (isTargetFile,         *)
(* isFileReady) is a choice of the environment at each call.               *)
(***************************************************************************)
\* where a producer continues after ProcessFile returns
AfterSubmit(q) == IF q = "loop" THEN "select" ELSE "iter"

\* case <-w.stopChan, or a closed Events / Errors channel: the loop returns
LoopStop ==
    /\ Alive /\ prodPc["loop"] = "select"
    /\ stopChan = "closed" \/ fsWatcher = "closed"
    /\ prodPc' = [prodPc EXCEPT !["loop"] = "returned"]
    /\ UNCHANGED <<mainVars, isRunning, stopChan, fsWatcher, prodPath, sweepFiles,
                   queueVars, workerVars, histVars>>
    /\ UNCHANGED sideVars

\* case event := <-w.watcher.Events, and handleEvent up to its call of
\* ProcessFile: the event is dropped (not a Create or Write, isTargetFile
\* or isFileReady false), or its path p goes on to ProcessFile
LoopEvent ==
    /\ Alive /\ prodPc["loop"] = "select" /\ fsWatcher = "open"
    /\ \/ UNCHANGED <<prodPc, prodPath>>
       \/ \E p \in Paths :
             /\ prodPc' = [prodPc EXCEPT !["loop"] = "lock"]
             /\ prodPath' = [prodPath EXCEPT !["loop"] = {p}]
    /\ UNCHANGED <<mainVars, isRunning, stopChan, fsWatcher, sweepFiles,
                   queueVars, workerVars, histVars>>
    /\ UNCHANGED sideVars

\* case err := <-w.watcher.Errors: the error is about to be logged
LoopError ==
    /\ Alive /\ prodPc["loop"] = "select" /\ fsWatcher = "open"
    /\ prodPc' = [prodPc EXCEPT !["loop"] = "logErr"]
    /\ UNCHANGED <<mainVars, isRunning, stopChan, fsWatcher, prodPath, sweepFiles,
                   queueVars, workerVars, histVars>>
    /\ UNCHANGED sideVars

\* the error is logged and the for loop goes round
LoopLogged ==
    /\ Alive /\ prodPc["loop"] = "logErr"
    /\ prodPc' = [prodPc EXCEPT !["loop"] = "select"]
    /\ UNCHANGED <<mainVars, isRunning, stopChan, fsWatcher, prodPath, sweepFiles,
                   queueVars, workerVars, histVars>>
    /\ UNCHANGED sideVars

(***************************************************************************)
(* Watcher.processExistingFiles (watcher.go:139-155).                      *)
(***************************************************************************)
\* filepath.Glob lists the directory in lexical order, or fails.  A path
\* that is not there yet is listed too and skipped by SweepIter, which
\* treats it like a file that is not a target
SweepGlob ==
    /\ Alive /\ prodPc["sweep"] = "glob"
    /\ \/ /\ sweepFiles' = SortedSeq(Paths)
          /\ prodPc' = [prodPc EXCEPT !["sweep"] = "iter"]
       \/ /\ prodPc' = [prodPc EXCEPT !["sweep"] = "returned"]
          /\ UNCHANGED sweepFiles
    /\ UNCHANGED <<mainVars, isRunning, stopChan, fsWatcher, prodPath,
                   queueVars, workerVars, histVars>>
    /\ UNCHANGED sideVars

\* one round of the range loop: isTargetFile && isFileReady, then ProcessFile
SweepIter ==
    /\ Alive /\ prodPc["sweep"] = "iter"
    /\ IF sweepFiles = <<>>
       THEN /\ prodPc' = [prodPc EXCEPT !["sweep"] = "returned"]
            /\ UNCHANGED <<sweepFiles, prodPath>>
       ELSE /\ sweepFiles' = Tail(sweepFiles)
            /\ \E submit \in BOOLEAN :     \* isTargetFile(file) && isFileReady(file)
                  IF submit
                  THEN /\ prodPc' = [prodPc EXCEPT !["sweep"] = "lock"]
                       /\ prodPath' = [prodPath EXCEPT !["sweep"] = {Head(sweepFiles)}]
                  ELSE UNCHANGED <<prodPc, prodPath>>
    /\ UNCHANGED <<mainVars, isRunning, stopChan, fsWatcher,
                   queueVars, workerVars, histVars>>
    /\ UNCHANGED sideVars

(***************************************************************************)
(* CSVProcessor.ProcessFile (csv.go:67-80), called by both producers.      *)
(***************************************************************************)
\* a ProcessFile that does not consult the ledger
ProcessFileLockNoCheck(q) ==
    /\ Alive /\ prodPc[q] = "lock" /\ mutex = "free"
    /\ mutex' = q
    /\ processedFiles' = processedFiles \cup prodPath[q]
    /\ prodPc' = [prodPc EXCEPT ![q] = "send"]
    /\ UNCHANGED <<mainVars, isRunning, stopChan, fsWatcher, prodPath, sweepFiles,
                   workChan, chanClosed, workerVars, histVars>>
    /\ UNCHANGED sideVars

\* a ProcessFile that looks at the ledger before it takes the mutex and
\* returns at once for a path it finds there
ProcessFileLockUnlocked(q) ==
    /\ Alive /\ prodPc[q] = "lock"
    /\ IF prodPath[q] \subseteq processedFiles
       THEN /\ prodPc' = [prodPc EXCEPT ![q] = AfterSubmit(q)]
            /\ prodPath' = [prodPath EXCEPT ![q] = {}]
            /\ UNCHANGED <<processedFiles, mutex>>
       ELSE /\ mutex = "free"
            /\ mutex' = q
            /\ processedFiles' = processedFiles \cup prodPath[q]
            /\ prodPc' = [prodPc EXCEPT ![q] = "send"]
            /\ UNCHANGED prodPath
    /\ UNCHANGED <<mainVars, isRunning, stopChan, fsWatcher, sweepFiles,
                   workChan, chanClosed, workerVars, histVars>>
    /\ UNCHANGED sideVars

\* Lock, then the ledger test: either the path is known (log, return) or
\* it is recorded and the send follows; the mutex is held in both cases
ProcessFileLock(q) ==
    /\ Alive /\ prodPc[q] = "lock" /\ mutex = "free"
    /\ mutex' = q
    /\ IF prodPath[q] \subseteq processedFiles
       THEN /\ prodPc' = [prodPc EXCEPT ![q] = "skip"]
            /\ UNCHANGED processedFiles
       ELSE /\ processedFiles' = processedFiles \cup prodPath[q]
            /\ prodPc' = [prodPc EXCEPT ![q] = "send"]
    /\ UNCHANGED <<mainVars, isRunning, stopChan, fsWatcher, prodPath, sweepFiles,
                   workChan, chanClosed, workerVars, histVars>>
    /\ UNCHANGED sideVars

\* a skip that takes the path out of the ledger
ProcessFileSkipForget(q) ==
    /\ Alive /\ prodPc[q] = "skip" /\ mutex = q
    /\ mutex' = "free"
    /\ processedFiles' = processedFiles \ prodPath[q]
    /\ prodPc' = [prodPc EXCEPT ![q] = AfterSubmit(q)]
    /\ prodPath' = [prodPath EXCEPT ![q] = {}]
    /\ UNCHANGED <<mainVars, isRunning, stopChan, fsWatcher, sweepFiles,
                   workChan, chanClosed, workerVars, histVars>>
    /\ UNCHANGED sideVars

\* "File already processed, skipping": return, and the deferred Unlock
ProcessFileSkip(q) ==
    /\ Alive /\ prodPc[q] = "skip" /\ mutex = q
    /\ mutex' = "free"
    /\ prodPc' = [prodPc EXCEPT ![q] = AfterSubmit(q)]
    /\ prodPath' = [prodPath EXCEPT ![q] = {}]
    /\ UNCHANGED <<mainVars, isRunning, stopChan, fsWatcher, sweepFiles, processedFiles,
                   workChan, chanClosed, workerVars, histVars>>
    /\ UNCHANGED sideVars

\* a send that never blocks, as on a channel without a bound
ProcessFileSendUnbounded(q) ==
    /\ Alive /\ prodPc[q] = "send" /\ mutex = q
    /\ IF chanClosed
       THEN /\ panicked' = TRUE
            /\ UNCHANGED <<workChan, mutex, prodPc, prodPath, enqCount>>
       ELSE /\ \E p \in prodPath[q] :
                  /\ workChan' = Append(workChan, p)
                  /\ enqCount' = [enqCount EXCEPT ![p] = @ + 1]
            /\ mutex' = "free"
            /\ prodPc' = [prodPc EXCEPT ![q] = AfterSubmit(q)]
            /\ prodPath' = [prodPath EXCEPT ![q] = {}]
            /\ UNCHANGED panicked
    /\ UNCHANGED <<mainPc, maxConcurrency, isRunning, stopChan, fsWatcher, sweepFiles,
                   processedFiles, chanClosed, workerVars, parseCount, relocCount,
                   outcome, closedBusy>>
    /\ UNCHANGED sideVars

\* p.workChan <- filePath: blocks while the channel is full, panics once it
\* is closed (a blocked sender too); then the deferred Unlock
ProcessFileSend(q) ==
    /\ Alive /\ prodPc[q] = "send" /\ mutex = q
    /\ IF chanClosed
       THEN /\ panicked' = TRUE
            /\ UNCHANGED <<workChan, mutex, prodPc, prodPath, enqCount>>
       ELSE /\ Len(workChan) < WorkChanCap
            /\ \E p \in prodPath[q] :
                  /\ workChan' = Append(workChan, p)
                  /\ enqCount' = [enqCount EXCEPT ![p] = @ + 1]
            /\ mutex' = "free"
            /\ prodPc' = [prodPc EXCEPT ![q] = AfterSubmit(q)]
            /\ prodPath' = [prodPath EXCEPT ![q] = {}]
            /\ UNCHANGED panicked
    /\ UNCHANGED <<mainPc, maxConcurrency, isRunning, stopChan, fsWatcher, sweepFiles,
                   processedFiles, chanClosed, workerVars, parseCount, relocCount,
                   outcome, closedBusy>>
    /\ UNCHANGED sideVars

(***************************************************************************)
(* CSVProcessor.worker (csv.go:82-112): for filePath := range p.workChan.  *)
(***************************************************************************)
\* a receive that leaves the path on the channel
WorkerRecvPeek(w) ==
    /\ Alive /\ wPc[w] = "recv" /\ workChan # <<>>
    /\ wFile' = [wFile EXCEPT ![w] = {Head(workChan)}]
    /\ wPc' = [wPc EXCEPT ![w] = "open"]
    /\ UNCHANGED <<mainVars, watchVars, queueVars, rowCount, errorCount, success,
                   wHeader, histVars>>
    /\ UNCHANGED sideVars

\* the range takes the next path off the channel (also after the close)
WorkerRecv(w) ==
    /\ Alive /\ wPc[w] = "recv" /\ workChan # <<>>
    /\ wFile' = [wFile EXCEPT ![w] = {Head(workChan)}]
    /\ workChan' = Tail(workChan)
    /\ wPc' = [wPc EXCEPT ![w] = "open"]
    /\ UNCHANGED <<mainVars, watchVars, processedFiles, chanClosed, mutex, rowCount,
                   errorCount, success, wHeader, histVars>>
    /\ UNCHANGED sideVars

\* the range ends: the channel is closed and drained; wg.Done()
WorkerExit(w) ==
    /\ Alive /\ wPc[w] = "recv" /\ chanClosed /\ workChan = <<>>
    /\ wPc' = [wPc EXCEPT ![w] = "exited"]
    /\ UNCHANGED <<mainVars, watchVars, queueVars, wFile, rowCount, errorCount,
                   success, wHeader, histVars>>
    /\ UNCHANGED sideVars

(***************************************************************************)
(* CSVProcessor.processCSVFile (csv.go:114-178), run by worker w.          *)
(* processRow is seen here by its result only: nil or an error.            *)
(***************************************************************************)
\* os.Open: on failure the file is judged failed
ParseOpen(w) ==
    /\ Alive /\ wPc[w] = "open"
    /\ parseCount' = [p \in Paths |-> IF p \in wFile[w] THEN parseCount[p] + 1
                                      ELSE parseCount[p]]
    /\ \E opened \in BOOLEAN :
          IF opened
          THEN /\ wPc' = [wPc EXCEPT ![w] = "header"]
               /\ UNCHANGED success
          ELSE /\ wPc' = [wPc EXCEPT ![w] = "relocate"]
               /\ success' = [success EXCEPT ![w] = FALSE]
    /\ UNCHANGED <<mainVars, watchVars, queueVars, wFile, rowCount, errorCount, wHeader,
                   enqCount, relocCount, outcome, closedBusy>>
    /\ UNCHANGED sideVars

\* reader.Read() of the header and the required-columns test; H is the set
\* of headers a file may carry
ParseHeader(w, H) ==
    /\ Alive /\ wPc[w] = "header"
    /\ \/ /\ wPc' = [wPc EXCEPT ![w] = "relocate"]       \* the read fails
          /\ success' = [success EXCEPT ![w] = FALSE]
          /\ UNCHANGED <<wHeader, rowCount, errorCount>>
       \/ \E h \in H :
             /\ wHeader' = [wHeader EXCEPT ![w] = h]
             /\ IF HasRequiredColumns(getColumnIndices(h))
                THEN /\ rowCount' = [rowCount EXCEPT ![w] = 0]
                     /\ errorCount' = [errorCount EXCEPT ![w] = 0]
                     /\ wPc' = [wPc EXCEPT ![w] = "rows"]
                     /\ UNCHANGED success
                ELSE /\ wPc' = [wPc EXCEPT ![w] = "relocate"]
                     /\ success' = [success EXCEPT ![w] = FALSE]
                     /\ UNCHANGED <<rowCount, errorCount>>
    /\ UNCHANGED <<mainVars, watchVars, queueVars, wFile, histVars>>
    /\ UNCHANGED sideVars

\* one round of the row loop that reads a row; L bounds the counters.
\* Read fails (errorCount++, continue), or processRow returns nil or an error
ParseRow(w, L) ==
    /\ Alive /\ wPc[w] = "rows"
    /\ \/ /\ errorCount[w] < L                            \* reader.Read() error
          /\ errorCount' = [errorCount EXCEPT ![w] = @ + 1]
          /\ UNCHANGED rowCount
       \/ /\ rowCount[w] < L                              \* processRow: nil
          /\ rowCount' = [rowCount EXCEPT ![w] = @ + 1]
          /\ UNCHANGED errorCount
       \/ /\ rowCount[w] < L /\ errorCount[w] < L         \* processRow: error
          /\ errorCount' = [errorCount EXCEPT ![w] = @ + 1]
          /\ rowCount' = [rowCount EXCEPT ![w] = @ + 1]
    /\ UNCHANGED <<mainVars, watchVars, queueVars, wPc, wFile, success, wHeader, histVars>>
    /\ UNCHANGED sideVars

\* reader.Read() returns io.EOF: break, and the verdict of csv.go:177
ParseEOF(w) ==
    /\ Alive /\ wPc[w] = "rows"
    /\ success' = [success EXCEPT ![w] = JudgeFile(errorCount[w], rowCount[w])]
    /\ wPc' = [wPc EXCEPT ![w] = "relocate"]
    /\ UNCHANGED <<mainVars, watchVars, queueVars, wFile, rowCount, errorCount, wHeader,
                   histVars>>
    /\ UNCHANGED sideVars

\* every value processCSVFile can return for a file whose header is in H
\* and whose counters stay within L
ParseVerdicts(H, L) ==
    {FALSE}
    \cup {HasRequiredColumns(getColumnIndices(h)) : h \in {g \in H : ~HasRequiredColumns(getColumnIndices(g))}}
    \cup {JudgeFile(e, r) : <<e, r>> \in
            {x \in (0..L) \X (0..L) : \E h \in H : HasRequiredColumns(getColumnIndices(h))}}

\* a destination that is the processed directory whatever the verdict
DestinationAlwaysProcessed(verdict, renamed) ==
    IF ~renamed THEN "left" ELSE "processed"

\* where os.Rename leaves the file: the verdict picks the directory
Destination(verdict, renamed) ==
    IF ~renamed THEN "left" ELSE IF verdict THEN "processed" ELSE "failed"

\* a worker that returns when the rename fails
WorkerProcessQuitOnError(w) ==
    /\ Alive /\ wPc[w] = "open"
    /\ \E v \in ParseVerdicts(PipeHeaders, MaxRows), renamed \in BOOLEAN :
          /\ outcome' = [p \in Paths |-> IF p \in wFile[w] THEN Destination(v, renamed)
                                         ELSE outcome[p]]
          /\ wPc' = [wPc EXCEPT ![w] = IF renamed THEN "recv" ELSE "exited"]
    /\ parseCount' = [p \in Paths |-> IF p \in wFile[w] THEN parseCount[p] + 1
                                      ELSE parseCount[p]]
    /\ relocCount' = [p \in Paths |-> IF p \in wFile[w] THEN relocCount[p] + 1
                                      ELSE relocCount[p]]
    /\ wFile' = [wFile EXCEPT ![w] = {}]
    /\ UNCHANGED <<mainVars, watchVars, queueVars, rowCount, errorCount, success,
                   wHeader, enqCount, closedBusy>>
    /\ UNCHANGED sideVars

\* the body of the range loop (csv.go:90-108): processCSVFile returns its
\* verdict, os.Rename moves the file to ProcessedDir or FailedDir or fails,
\* which is only logged, and the worker is back at the receive
WorkerProcess(w) ==
    /\ Alive /\ wPc[w] = "open"
    /\ \E v \in ParseVerdicts(PipeHeaders, MaxRows), renamed \in BOOLEAN :
          outcome' = [p \in Paths |-> IF p \in wFile[w] THEN Destination(v, renamed)
                                      ELSE outcome[p]]
    /\ parseCount' = [p \in Paths |-> IF p \in wFile[w] THEN parseCount[p] + 1
                                      ELSE parseCount[p]]
    /\ relocCount' = [p \in Paths |-> IF p \in wFile[w] THEN relocCount[p] + 1
                                      ELSE relocCount[p]]
    /\ wPc' = [wPc EXCEPT ![w] = "recv"]
    /\ wFile' = [wFile EXCEPT ![w] = {}]
    /\ UNCHANGED <<mainVars, watchVars, queueVars, rowCount, errorCount, success,
                   wHeader, enqCount, closedBusy>>
    /\ UNCHANGED sideVars

(***************************************************************************)
(* The relocation (csv.go:94-108) as a step of its own, after the steps of *)
(* processCSVFile.  A path p stands for the file <<"watch", p>> of the     *)
(* watched directory.                                                      *)
(***************************************************************************)
FilePath(p) == <<"watch", p>>

\* filepath.Base
Base(path) == path[Len(path)]

\* filepath.Join(dir, name)
Join(dir, name) == <<dir, name>>

\* csv.go:95-101: ProcessedDir or FailedDir, and the base name of the file
DestinationPath(verdict, path) ==
    Join(IF verdict THEN "processed" ELSE "failed", Base(path))

\* os.Rename(filePath, destinationPath) succeeds or fails, which is logged;
\* the range loop then takes the next path
WorkerRelocate(w) ==
    /\ Alive /\ wPc[w] = "relocate"
    /\ \E renamed \in BOOLEAN :
          outcome' = [p \in Paths |-> IF p \in wFile[w] THEN Destination(success[w], renamed)
                                      ELSE outcome[p]]
    /\ renames' = [p \in Paths |-> IF p \in wFile[w]
                                   THEN DestinationPath(success[w], FilePath(p))
                                   ELSE renames[p]]
    /\ relocCount' = [p \in Paths |-> IF p \in wFile[w] THEN relocCount[p] + 1
                                      ELSE relocCount[p]]
    /\ wPc' = [wPc EXCEPT ![w] = "recv"]
    /\ wFile' = [wFile EXCEPT ![w] = {}]
    /\ UNCHANGED <<mainVars, watchVars, queueVars, rowCount, errorCount, success,
                   wHeader, enqCount, parseCount, closedBusy>>
    /\ UNCHANGED <<valVars, reqVars, rowVars, fsVars, unread>>

(***************************************************************************)
(* The watcher step by step (watcher.go:93-190) over a watched directory   *)
(* whose files change under it.  Path p of the pipeline is the file        *)
(* Join(Directory, FileName(p)).                                           *)
(***************************************************************************)
\* changes made to the directory during one run
MaxChanges == 1

\* base names: a stem that is a time stamp or not, and an extension
Extensions == {"csv", "txt"}
NameList ==
    << [stem |-> "20240101_120000", ext |-> "csv"],
       [stem |-> "20240101_120000", ext |-> "txt"],
       [stem |-> "notes", ext |-> "csv"],
       [stem |-> "notes", ext |-> "txt"] >>

\* filepath.Base of path p
FileName(p) == NameList[((p - 1) % Len(NameList)) + 1]

\* \d{8}_\d{6} matches the stem
IsTimeStamp(stem) == stem = "20240101_120000"

\* configured patterns: the default ^\d{8}_\d{6}\.csv$ (config.go:81) and
\* the same for another extension, ^\d{8}_\d{6}\.txt$
FilePatterns == {[stamp |-> TRUE, ext |-> e] : e \in Extensions}

\* w.filePattern.MatchString(fileName)
MatchString(pattern, name) ==
    /\ pattern.stamp => IsTimeStamp(name.stem)
    /\ name.ext = pattern.ext

\* filepath.Match("*.csv", name), the pattern of the sweep's Glob
GlobMatch(name) == name.ext = "csv"

\* what os.Stat returns: an error, or the FileInfo of a directory or of a
\* regular file, with IsDir(), Size() and ModTime()
StatInfo(k, z, t) == [kind |-> k, size |-> z, modTime |-> t]
StatErr == StatInfo("err", 0, 0)
DirInfo == StatInfo("dir", 0, 0)
FileInfos == {StatInfo("file", z, t) : z \in 0..1, t \in 0..1}
StatValues == {StatErr, DirInfo} \cup FileInfos

\* a local FileInfo not assigned yet
NoInfo == StatInfo("none", 0, 0)

\* a change of size alone is not seen
SameInfoModTimeOnly(a, b) == a.modTime = b.modTime

\* initialInfo.Size() == currentInfo.Size() &&
\* initialInfo.ModTime() == currentInfo.ModTime()
SameInfo(a, b) == a.size = b.size /\ a.modTime = b.modTime

\* the watcher detail outside of the specifications that use it
WatchIdle ==
    /\ filePattern = [stamp |-> TRUE, ext |-> "csv"]
    /\ fileStat = [p \in Paths |-> StatErr]
    /\ changes = 0
    /\ targetInfo = [q \in Producers |-> NoInfo]
    /\ initialInfo = [q \in Producers |-> NoInfo]
    /\ currentInfo = [q \in Producers |-> NoInfo]
    /\ unstableDrops = {}
    /\ errSeen = FALSE

\* NewWatcher compiled a pattern; each path is absent, a directory or a file
InitWatchDir ==
    /\ filePattern \in FilePatterns
    /\ fileStat \in [Paths -> {StatErr, DirInfo, StatInfo("file", 0, 0)}]
    /\ changes = 0
    /\ targetInfo = [q \in Producers |-> NoInfo]
    /\ initialInfo = [q \in Producers |-> NoInfo]
    /\ currentInfo = [q \in Producers |-> NoInfo]
    /\ unstableDrops = {}
    /\ errSeen = FALSE

\* the three FileInfo locals of producer q
SetInfos(q, target, initial, current) ==
    /\ targetInfo' = [targetInfo EXCEPT ![q] = target]
    /\ initialInfo' = [initialInfo EXCEPT ![q] = initial]
    /\ currentInfo' = [currentInfo EXCEPT ![q] = current]

\* the producer gives up its path: handleEvent returns, or the sweep's
\* condition is false and the range loop goes on; the locals are gone
DropPath(q) ==
    /\ prodPc' = [prodPc EXCEPT ![q] = AfterSubmit(q)]
    /\ prodPath' = [prodPath EXCEPT ![q] = {}]
    /\ SetInfos(q, NoInfo, NoInfo, NoInfo)

\* somebody creates, writes, removes or replaces a file of the directory
FileChange ==
    /\ Alive /\ mainPc # "init" /\ changes < MaxChanges
    /\ \E p \in Paths : \E v \in StatValues \ {fileStat[p]} :
          fileStat' = [fileStat EXCEPT ![p] = v]
    /\ changes' = changes + 1
    /\ UNCHANGED <<filePattern, targetInfo, initialInfo, currentInfo, unstableDrops, errSeen>>
    /\ UNCHANGED <<pipeVars, valVars, reqVars, rowVars, renames, unread>>

\* case event := <-w.watcher.Events, and handleEvent's test of event.Op:
\* only a Create or a Write goes on to isTargetFile
EventsCase ==
    /\ Alive /\ prodPc["loop"] = "select" /\ fsWatcher = "open"
    /\ \E op \in {"Create", "Write", "Remove", "Rename", "Chmod"} : \E p \in Paths :
          IF op \in {"Create", "Write"}
          THEN /\ prodPc' = [prodPc EXCEPT !["loop"] = "target"]
               /\ prodPath' = [prodPath EXCEPT !["loop"] = {p}]
               /\ SetInfos("loop", NoInfo, NoInfo, NoInfo)
          ELSE UNCHANGED <<prodPc, prodPath, targetInfo, initialInfo, currentInfo>>
    /\ UNCHANGED <<filePattern, fileStat, changes, unstableDrops, errSeen>>
    /\ UNCHANGED <<mainVars, isRunning, stopChan, fsWatcher, sweepFiles,
                   queueVars, workerVars, histVars>>
    /\ UNCHANGED <<valVars, reqVars, rowVars, renames, unread>>

\* an Errors case that ends the loop once the error is logged
ErrorsCaseReturn ==
    /\ Alive /\ prodPc["loop"] = "select" /\ fsWatcher = "open"
    /\ errSeen' = TRUE
    /\ prodPc' = [prodPc EXCEPT !["loop"] = "returned"]
    /\ UNCHANGED <<filePattern, fileStat, changes, targetInfo, initialInfo, currentInfo,
                   unstableDrops>>
    /\ UNCHANGED <<mainVars, isRunning, stopChan, fsWatcher, prodPath, sweepFiles,
                   queueVars, workerVars, histVars>>
    /\ UNCHANGED <<valVars, reqVars, rowVars, renames, unread>>

\* case err := <-w.watcher.Errors: the error is logged, the for loop goes round
ErrorsCase ==
    /\ Alive /\ prodPc["loop"] = "select" /\ fsWatcher = "open"
    /\ errSeen' = TRUE
    /\ UNCHANGED <<filePattern, fileStat, changes, targetInfo, initialInfo, currentInfo,
                   unstableDrops>>
    /\ UNCHANGED <<pipeVars, valVars, reqVars, rowVars, renames, unread>>

\* filepath.Glob(Join(Directory, "*.csv")): the entries of the directory
\* whose name matches *.csv, directories included, in the order of Paths
SweepGlobCSV ==
    /\ Alive /\ prodPc["sweep"] = "glob"
    /\ sweepFiles' = SortedSeq({p \in Paths : fileStat[p] # StatErr /\ GlobMatch(FileName(p))})
    /\ prodPc' = [prodPc EXCEPT !["sweep"] = "iter"]
    /\ UNCHANGED <<mainVars, isRunning, stopChan, fsWatcher, prodPath,
                   queueVars, workerVars, histVars>>
    /\ UNCHANGED sideVars

\* for _, file := range files
SweepRange ==
    /\ Alive /\ prodPc["sweep"] = "iter"
    /\ IF sweepFiles = <<>>
       THEN /\ prodPc' = [prodPc EXCEPT !["sweep"] = "returned"]
            /\ UNCHANGED <<sweepFiles, prodPath>>
       ELSE /\ sweepFiles' = Tail(sweepFiles)
            /\ prodPc' = [prodPc EXCEPT !["sweep"] = "target"]
            /\ prodPath' = [prodPath EXCEPT !["sweep"] = {Head(sweepFiles)}]
    /\ SetInfos("sweep", NoInfo, NoInfo, NoInfo)
    /\ UNCHANGED <<filePattern, fileStat, changes, unstableDrops, errSeen>>
    /\ UNCHANGED <<mainVars, isRunning, stopChan, fsWatcher,
                   queueVars, workerVars, histVars>>
    /\ UNCHANGED <<valVars, reqVars, rowVars, renames, unread>>

\* isTargetFile(path): os.Stat, then no error, not a directory, and the
\* base name matches the pattern
IsTargetFile(q) ==
    /\ Alive /\ prodPc[q] = "target"
    /\ \E p \in prodPath[q] :
          IF fileStat[p].kind = "file" /\ MatchString(filePattern, FileName(p))
          THEN /\ prodPc' = [prodPc EXCEPT ![q] = "stat1"]
               /\ SetInfos(q, fileStat[p], NoInfo, NoInfo)
               /\ UNCHANGED prodPath
          ELSE DropPath(q)
    /\ UNCHANGED <<filePattern, fileStat, changes, unstableDrops, errSeen>>
    /\ UNCHANGED <<mainVars, isRunning, stopChan, fsWatcher, sweepFiles,
                   queueVars, workerVars, histVars>>
    /\ UNCHANGED <<valVars, reqVars, rowVars, renames, unread>>

\* isFileReady(path), first half: initialInfo, err := os.Stat(path), after
\* handleEvent's own Sleep in the watch loop; then time.Sleep(1 * time.Second)
ReadyStat1(q) ==
    /\ Alive /\ prodPc[q] = "stat1"
    /\ \E p \in prodPath[q] :
          IF fileStat[p] = StatErr
          THEN DropPath(q)
          ELSE /\ prodPc' = [prodPc EXCEPT ![q] = "stat2"]
               /\ SetInfos(q, targetInfo[q], fileStat[p], NoInfo)
               /\ UNCHANGED prodPath
    /\ UNCHANGED <<filePattern, fileStat, changes, unstableDrops, errSeen>>
    /\ UNCHANGED <<mainVars, isRunning, stopChan, fsWatcher, sweepFiles,
                   queueVars, workerVars, histVars>>
    /\ UNCHANGED <<valVars, reqVars, rowVars, renames, unread>>

\* isFileReady(path), second half: currentInfo, err := os.Stat(path) and
\* the comparison; when it holds the caller goes on to ProcessFile
ReadyStat2(q) ==
    /\ Alive /\ prodPc[q] = "stat2"
    /\ \E p \in prodPath[q] :
          IF fileStat[p] = StatErr
          THEN DropPath(q) /\ UNCHANGED unstableDrops
          ELSE IF SameInfo(initialInfo[q], fileStat[p])
               THEN /\ prodPc' = [prodPc EXCEPT ![q] = "lock"]
                    /\ SetInfos(q, targetInfo[q], initialInfo[q], fileStat[p])
                    /\ UNCHANGED <<prodPath, unstableDrops>>
               ELSE /\ DropPath(q)
                    /\ unstableDrops' = unstableDrops \cup {p}
    /\ UNCHANGED <<filePattern, fileStat, changes, errSeen>>
    /\ UNCHANGED <<mainVars, isRunning, stopChan, fsWatcher, sweepFiles,
                   queueVars, workerVars, histVars>>
    /\ UNCHANGED <<valVars, reqVars, rowVars, renames, unread>>

(***************************************************************************)
(* model.TrackingInfo.Validate (unnamed/part_001:15-31).  A string is a    *)
(* sequence of characters; " " stands for the white space TrimSpace cuts.  *)
(***************************************************************************)
\* longest field value tried
MaxFieldLen == 2

WhiteSpace == {" "}
Chars == WhiteSpace \cup {"x"}
Strings == UNION {[1..n -> Chars] : n \in 0..MaxFieldLen}

RECURSIVE TrimLeft(_)
TrimLeft(str) ==
    IF str # <<>> /\ Head(str) \in WhiteSpace THEN TrimLeft(Tail(str)) ELSE str

RECURSIVE TrimRight(_)
TrimRight(str) ==
    IF str # <<>> /\ str[Len(str)] \in WhiteSpace
    THEN TrimRight(SubSeq(str, 1, Len(str) - 1)) ELSE str

\* strings.TrimSpace
TrimSpace(str) == TrimRight(TrimLeft(str))

\* a Validate that compares the raw fields with ""
ValidateNoTrim(t) ==
    IF t.OrderNumber = <<>> THEN "order number is required"
    ELSE IF t.TrackingNumber = <<>> THEN "tracking number is required"
    ELSE IF t.CarrierCode = <<>> THEN "carrier code is required"
    ELSE IF t.Title = <<>> THEN "title is required"
    ELSE "nil"

\* func (t *TrackingInfo) Validate() error
Validate(t) ==
    IF TrimSpace(t.OrderNumber) = <<>> THEN "order number is required"
    ELSE IF TrimSpace(t.TrackingNumber) = <<>> THEN "tracking number is required"
    ELSE IF TrimSpace(t.CarrierCode) = <<>> THEN "carrier code is required"
    ELSE IF TrimSpace(t.Title) = <<>> THEN "title is required"
    ELSE "nil"

TrackingInfos ==
    [OrderNumber : Strings, TrackingNumber : Strings, CarrierCode : Strings, Title : Strings]

\* no record is being validated
ValidateIdle ==
    /\ trackingInfo = [OrderNumber |-> <<>>, TrackingNumber |-> <<>>,
                       CarrierCode |-> <<>>, Title |-> <<>>]
    /\ validateErr = "idle"

InitValidate ==
    /\ trackingInfo \in TrackingInfos
    /\ validateErr = "pending"

\* the call trackingInfo.Validate() of processRow (csv.go:224)
CallValidate ==
    /\ validateErr = "pending"
    /\ validateErr' = Validate(trackingInfo)
    /\ UNCHANGED <<trackingInfo, pipeVars, reqVars, rowVars, renames, fsVars, unread>>

(***************************************************************************)
(* api.MagentoClient: the three requests (magento.go:42-168) and doRequest *)
(* (magento.go:170-219).  A request body is "nil" (a GET), "entity" (the   *)
(* marshalled track), "response" (the bytes of an error response) or       *)
(* "drained" (a buffer that a failed Do has read to its end).              *)
(***************************************************************************)
\* largest magento.max_retries tried (the default is 3, config.go:77)
MaxRetriesTried == 3
\* largest magento.retry_backoff tried, in units of time
MaxBackoff == 2

Operations == {"GetOrderByIncrementID", "GetShipmentsByOrderID", "AddTrackingToShipment"}

\* http.NewRequest as each operation calls it
NewRequest(op) ==
    CASE op = "GetOrderByIncrementID" ->
            [method |-> "GET", url |-> "orders?increment_id", body |-> "nil"]
      [] op = "GetShipmentsByOrderID" ->
            [method |-> "GET", url |-> "shipments?order_id", body |-> "nil"]
      [] op = "AddTrackingToShipment" ->
            [method |-> "POST", url |-> "shipment/track", body |-> "entity"]

\* status codes a response may carry
StatusCodes == {199, 200, 204, 299, 300, 404, 500}

\* magento.go:194
IsErrorStatus(status) == status < 200 \/ status >= 300

\* a sleep of backoff alone, whatever the attempt
BackoffSleepConstant(n) == backoff

\* magento.go:185 and 204: c.backoff * time.Duration(attempts)
BackoffSleep(n) == backoff * n

\* magento.go:176: for attempts < c.maxRetries
MayAttempt == attempts < maxRetries

\* no request is in progress
RequestIdle ==
    /\ maxRetries = 0
    /\ backoff = 0
    /\ req = [method |-> "none", url |-> "none", body |-> "nil"]
    /\ attempts = 0
    /\ reqPc = "idle"
    /\ ret = "none"
    /\ sent = <<>>
    /\ results = <<>>
    /\ sleeps = <<>>

\* an operation has built its request and calls doRequest
InitRequest ==
    /\ maxRetries \in 0..MaxRetriesTried
    /\ backoff \in 1..MaxBackoff
    /\ \E op \in Operations : req = NewRequest(op)
    /\ attempts = 0
    /\ reqPc = "loop"
    /\ ret = "none"
    /\ sent = <<>>
    /\ results = <<>>
    /\ sleeps = <<>>

\* httpClient.Do returns an error.  A body that is there may have been
\* read by the failed attempt; nothing rewinds it
DoTransportError ==
    /\ reqPc = "loop" /\ MayAttempt
    /\ attempts' = attempts + 1
    /\ sent' = Append(sent, req)
    /\ results' = Append(results, <<"error", 0>>)
    /\ IF attempts' < maxRetries
       THEN /\ sleeps' = Append(sleeps, BackoffSleep(attempts'))
            /\ \E read \in BOOLEAN :
                  req' = IF read /\ req.body # "nil"
                         THEN [req EXCEPT !.body = "drained"] ELSE req
            /\ UNCHANGED <<reqPc, ret>>
       ELSE /\ reqPc' = "done"
            /\ ret' = "request failed after attempts"
            /\ UNCHANGED <<sleeps, req>>
    /\ UNCHANGED <<maxRetries, backoff, pipeVars, valVars, rowVars, renames, fsVars, unread>>

\* a response with an error status: its body is read; before a retry the
\* request body, if there is one, is set to a buffer of that response body
DoErrorStatus ==
    /\ reqPc = "loop" /\ MayAttempt
    /\ req.body # "drained"
    /\ attempts' = attempts + 1
    /\ sent' = Append(sent, req)
    /\ \E status \in {c \in StatusCodes : IsErrorStatus(c)} :
          results' = Append(results, <<"response", status>>)
    /\ IF attempts' < maxRetries
       THEN /\ sleeps' = Append(sleeps, BackoffSleep(attempts'))
            /\ req' = IF req.body # "nil" THEN [req EXCEPT !.body = "response"] ELSE req
            /\ UNCHANGED <<reqPc, ret>>
       ELSE /\ reqPc' = "done"
            /\ ret' = "api error"
            /\ UNCHANGED <<sleeps, req>>
    /\ UNCHANGED <<maxRetries, backoff, pipeVars, valVars, rowVars, renames, fsVars, unread>>

\* a success that is followed by another round of the loop
DoSuccessNoReturn ==
    /\ reqPc = "loop" /\ MayAttempt
    /\ req.body # "drained"
    /\ attempts' = attempts + 1
    /\ sent' = Append(sent, req)
    /\ \E status \in {c \in StatusCodes : ~IsErrorStatus(c)} :
          results' = Append(results, <<"response", status>>)
    /\ ret' = "nil"
    /\ reqPc' = IF attempts' < maxRetries THEN "loop" ELSE "done"
    /\ UNCHANGED <<sleeps, req, maxRetries, backoff, pipeVars, valVars, rowVars, renames, fsVars, unread>>

\* a success whose decode failure is retried like a failed attempt
DoSuccessRetryDecode ==
    /\ reqPc = "loop" /\ MayAttempt
    /\ req.body # "drained"
    /\ attempts' = attempts + 1
    /\ sent' = Append(sent, req)
    /\ \E status \in {c \in StatusCodes : ~IsErrorStatus(c)} :
          results' = Append(results, <<"response", status>>)
    /\ \E decoded \in BOOLEAN :
          IF ~decoded /\ attempts' < maxRetries
          THEN UNCHANGED <<reqPc, ret>>
          ELSE /\ ret' = IF decoded THEN "nil" ELSE "decode error"
               /\ reqPc' = "done"
    /\ UNCHANGED <<sleeps, req, maxRetries, backoff, pipeVars, valVars, rowVars, renames, fsVars, unread>>

\* a response with a success status: return json.NewDecoder(...).Decode(v)
DoSuccess ==
    /\ reqPc = "loop" /\ MayAttempt
    /\ req.body # "drained"
    /\ attempts' = attempts + 1
    /\ sent' = Append(sent, req)
    /\ \E status \in {c \in StatusCodes : ~IsErrorStatus(c)} :
          results' = Append(results, <<"response", status>>)
    /\ \E decoded \in BOOLEAN :
          ret' = IF decoded THEN "nil" ELSE "decode error"
    /\ reqPc' = "done"
    /\ UNCHANGED <<sleeps, req, maxRetries, backoff, pipeVars, valVars, rowVars, renames, fsVars, unread>>

\* a loop that was never entered returns nil
DoExhaustedNil ==
    /\ reqPc = "loop" /\ ~MayAttempt
    /\ reqPc' = "done"
    /\ ret' = IF attempts = 0 THEN "nil" ELSE "max retries exceeded"
    /\ UNCHANGED <<attempts, sent, results, sleeps, req, maxRetries, backoff,
                   pipeVars, valVars, rowVars, renames, fsVars, unread>>

\* the loop test fails at the head of the for: "max retries exceeded"
DoExhausted ==
    /\ reqPc = "loop" /\ ~MayAttempt
    /\ reqPc' = "done"
    /\ ret' = "max retries exceeded"
    /\ UNCHANGED <<attempts, sent, results, sleeps, req, maxRetries, backoff,
                   pipeVars, valVars, rowVars, renames, fsVars, unread>>

(***************************************************************************)
(* CSVProcessor.processRow (csv.go:213-272) on the rows of worker 1's      *)
(* file, inside the row loop of processCSVFile (csv.go:148-166).  Each of  *)
(* the three operations of the client is a synchronous call: it returns    *)
(* after doRequest has made its attempts and slept its backoffs.           *)
(***************************************************************************)
\* most rows read from one file under SpecRows
MaxFileLines == 2

\* EntityIDs the server hands out for orders and shipments
EntityIDs == {1, 2}

\* the field values of the rows: empty, blank, and three that pass Validate
RowFields == {<<>>, <<" ">>, <<"x">>, <<"y">>, <<" ", "y">>}

RowRecords ==
    [OrderNumber : RowFields, TrackingNumber : RowFields,
     CarrierCode : RowFields, Title : RowFields]

\* the items a search response may carry, with its total_count
ItemLists == {<<>>} \cup {<<a>> : a \in EntityIDs}
                \cup {<<a, b>> : <<a, b>> \in {x \in EntityIDs \X EntityIDs : x[1] # x[2]}}

SearchResponses == {[total |-> t, items |-> l] : t \in 0..2, l \in ItemLists}

\* magento.go:75 and 116: the response holds nothing
IsEmptyResponse(r) == r.total = 0 \/ Len(r.items) = 0

\* processRow is not running
RowIdle ==
    /\ renames = [p \in Paths |-> <<>>]
    /\ unread = 0
    /\ fileRows = 0
    /\ rowPc = "idle"
    /\ rowErr = "nil"
    /\ order = {}
    /\ shipments = <<>>
    /\ issued = <<>>
    /\ calls = <<>>

\* worker 1's file holds up to MaxFileLines rows
InitRowFile ==
    /\ renames = [p \in Paths |-> <<>>]
    /\ unread = 0
    /\ fileRows \in 0..MaxFileLines
    /\ rowPc = "idle"
    /\ rowErr = "nil"
    /\ order = {}
    /\ shipments = <<>>
    /\ issued = <<>>
    /\ calls = <<>>

\* the operation op is called with argument arg
Called(op, arg) ==
    /\ issued' = Append(issued, [op |-> op, arg |-> arg])
    /\ calls' = Append(calls, <<rowCount[1], op, FALSE>>)

\* the operation in flight returns
Returned == calls' = [calls EXCEPT ![Len(calls)] = <<@[1], @[2], TRUE>>]

\* reader.Read() in the row loop: a read error (errorCount++, continue), or
\* a row, one of records, with which processRow is entered (csv.go:216-221)
ReadRowFrom(L, records) ==
    /\ Alive /\ wPc[1] = "rows" /\ rowPc = "idle"
    /\ \/ /\ errorCount[1] < L
          /\ errorCount' = [errorCount EXCEPT ![1] = @ + 1]
          /\ UNCHANGED <<rowCount, valVars, rowVars>>
       \/ /\ rowCount[1] < fileRows
          /\ trackingInfo' \in records
          /\ validateErr' = "pending"
          /\ rowPc' = "validate"
          /\ rowErr' = "nil"
          /\ order' = {}
          /\ shipments' = <<>>
          /\ issued' = <<>>
          /\ UNCHANGED <<rowCount, errorCount, fileRows, calls>>
    /\ UNCHANGED <<mainVars, watchVars, queueVars, wPc, wFile, success, wHeader, histVars>>
    /\ UNCHANGED <<reqVars, renames, fsVars, unread>>

\* the rows are any records within the bounds
ReadRow(L) == ReadRowFrom(L, RowRecords)

\* csv.go:224-226: Validate, and the return of its error
RowValidate ==
    /\ Alive /\ rowPc = "validate"
    /\ validateErr' = Validate(trackingInfo)
    /\ IF validateErr' # "nil"
       THEN rowPc' = "return" /\ rowErr' = "invalid tracking info"
       ELSE rowPc' = "order" /\ UNCHANGED rowErr
    /\ UNCHANGED <<trackingInfo, fileRows, order, shipments, issued, calls>>
    /\ UNCHANGED <<pipeVars, reqVars, renames, fsVars, unread>>

\* csv.go:237: GetOrderByIncrementID(trackingInfo.OrderNumber) is called
OrderCall ==
    /\ Alive /\ rowPc = "order"
    /\ Called("GetOrderByIncrementID", trackingInfo.OrderNumber)
    /\ rowPc' = "orderWait"
    /\ UNCHANGED <<fileRows, rowErr, order, shipments>>
    /\ UNCHANGED <<pipeVars, valVars, reqVars, renames, fsVars, unread>>

\* it returns: doRequest failed, the response is empty ("not found"), or
\* the first item is the order (magento.go:70-81); csv.go:238-240
OrderReturn ==
    /\ Alive /\ rowPc = "orderWait"
    /\ Returned
    /\ \/ rowPc' = "return" /\ rowErr' = "failed to get order" /\ UNCHANGED order
       \/ \E r \in SearchResponses :
             IF IsEmptyResponse(r)
             THEN rowPc' = "return" /\ rowErr' = "failed to get order" /\ UNCHANGED order
             ELSE rowPc' = "shipments" /\ order' = {r.items[1]} /\ UNCHANGED rowErr
    /\ UNCHANGED <<fileRows, shipments, issued>>
    /\ UNCHANGED <<pipeVars, valVars, reqVars, renames, fsVars, unread>>

\* csv.go:243: GetShipmentsByOrderID(order.EntityID) is called
ShipmentsCall ==
    /\ Alive /\ rowPc = "shipments"
    /\ \E id \in order : Called("GetShipmentsByOrderID", id)
    /\ rowPc' = "shipmentsWait"
    /\ UNCHANGED <<fileRows, rowErr, order, shipments>>
    /\ UNCHANGED <<pipeVars, valVars, reqVars, renames, fsVars, unread>>

\* it returns: doRequest failed, or the items, nil for an empty response
\* (magento.go:111-122); csv.go:244-252: no shipment is a skip, return nil
ShipmentsReturn ==
    /\ Alive /\ rowPc = "shipmentsWait"
    /\ Returned
    /\ \/ rowPc' = "return" /\ rowErr' = "failed to get shipments" /\ UNCHANGED shipments
       \/ \E r \in SearchResponses :
             /\ shipments' = IF IsEmptyResponse(r) THEN <<>> ELSE r.items
             /\ rowPc' = IF Len(shipments') = 0 THEN "return" ELSE "append"
             /\ UNCHANGED rowErr
    /\ UNCHANGED <<fileRows, order, issued>>
    /\ UNCHANGED <<pipeVars, valVars, reqVars, renames, fsVars, unread>>

\* an append that goes to the last shipment of the sequence
AppendCallLastShipment ==
    /\ Alive /\ rowPc = "append"
    /\ \E id \in order :
          Called("AddTrackingToShipment",
                 [shipment |-> shipments[Len(shipments)],
                  track |-> [OrderID |-> id,
                             TrackNumber |-> trackingInfo.TrackingNumber,
                             Title |-> trackingInfo.Title,
                             CarrierCode |-> trackingInfo.CarrierCode]])
    /\ rowPc' = "appendWait"
    /\ UNCHANGED <<fileRows, rowErr, order, shipments>>
    /\ UNCHANGED <<pipeVars, valVars, reqVars, renames, fsVars, unread>>

\* csv.go:255-266: the track is built from the row and
\* AddTrackingToShipment(shipments[0].EntityID, track) is called
AppendCall ==
    /\ Alive /\ rowPc = "append"
    /\ \E id \in order :
          Called("AddTrackingToShipment",
                 [shipment |-> shipments[1],
                  track |-> [OrderID |-> id,
                             TrackNumber |-> trackingInfo.TrackingNumber,
                             Title |-> trackingInfo.Title,
                             CarrierCode |-> trackingInfo.CarrierCode]])
    /\ rowPc' = "appendWait"
    /\ UNCHANGED <<fileRows, rowErr, order, shipments>>
    /\ UNCHANGED <<pipeVars, valVars, reqVars, renames, fsVars, unread>>

\* it returns nil or an error; csv.go:266-271
AppendReturn ==
    /\ Alive /\ rowPc = "appendWait"
    /\ Returned
    /\ rowPc' = "return"
    /\ \E failed \in BOOLEAN :
          rowErr' = IF failed THEN "failed to add tracking" ELSE "nil"
    /\ UNCHANGED <<fileRows, order, shipments, issued>>
    /\ UNCHANGED <<pipeVars, valVars, reqVars, renames, fsVars, unread>>

\* a row loop that an error of processRow breaks
RowReturnBreakOnError ==
    /\ Alive /\ rowPc = "return"
    /\ errorCount' = [errorCount EXCEPT ![1] = IF rowErr # "nil" THEN @ + 1 ELSE @]
    /\ rowCount' = [rowCount EXCEPT ![1] = @ + 1]
    /\ IF rowErr # "nil"
       THEN /\ wPc' = [wPc EXCEPT ![1] = "relocate"]
            /\ success' = [success EXCEPT ![1] = JudgeFile(errorCount'[1], rowCount'[1])]
       ELSE UNCHANGED <<wPc, success>>
    /\ rowPc' = "idle"
    /\ rowErr' = "nil"
    /\ order' = {}
    /\ shipments' = <<>>
    /\ issued' = <<>>
    /\ trackingInfo' = [OrderNumber |-> <<>>, TrackingNumber |-> <<>>,
                        CarrierCode |-> <<>>, Title |-> <<>>]
    /\ validateErr' = "idle"
    /\ UNCHANGED <<fileRows, calls>>
    /\ UNCHANGED <<mainVars, watchVars, queueVars, wFile, wHeader, histVars>>
    /\ UNCHANGED <<reqVars, renames, fsVars, unread>>

\* processRow has returned: csv.go:160-165, an error is counted and the
\* loop goes on with the next row; the locals of processRow are gone
RowReturn ==
    /\ Alive /\ rowPc = "return"
    /\ errorCount' = [errorCount EXCEPT ![1] = IF rowErr # "nil" THEN @ + 1 ELSE @]
    /\ rowCount' = [rowCount EXCEPT ![1] = @ + 1]
    /\ rowPc' = "idle"
    /\ rowErr' = "nil"
    /\ order' = {}
    /\ shipments' = <<>>
    /\ issued' = <<>>
    /\ trackingInfo' = [OrderNumber |-> <<>>, TrackingNumber |-> <<>>,
                        CarrierCode |-> <<>>, Title |-> <<>>]
    /\ validateErr' = "idle"
    /\ UNCHANGED <<fileRows, calls>>
    /\ UNCHANGED <<mainVars, watchVars, queueVars, wPc, wFile, success, wHeader, histVars>>
    /\ UNCHANGED <<reqVars, renames, fsVars, unread>>

\* reader.Read() returns io.EOF once the rows of the file are read
RowsEOF == rowPc = "idle" /\ rowCount[1] = fileRows /\ ParseEOF(1)

(***************************************************************************)
(* processRow with its remote operations carried out by doRequest: each    *)
(* operation of the client builds its request, calls doRequest, and turns  *)
(* what doRequest returns into its own result (magento.go:42-168).         *)
(***************************************************************************)
\* largest magento.max_retries tried under SpecRemote; the smallest is -1
MaxRemoteRetries == 2

\* two records, one that passes Validate and one with a blank tracking number
RemoteRecords ==
    {[OrderNumber |-> <<"x">>, TrackingNumber |-> t, CarrierCode |-> <<"y">>, Title |-> <<"x">>]
        : t \in {<<"x">>, <<" ">>}}

\* NewMagentoClient: max_retries and retry_backoff are taken as configured
InitClient ==
    /\ maxRetries \in (-1)..MaxRemoteRetries
    /\ backoff = 1
    /\ req = [method |-> "none", url |-> "none", body |-> "nil"]
    /\ attempts = 0
    /\ reqPc = "idle"
    /\ ret = "none"
    /\ sent = <<>>
    /\ results = <<>>
    /\ sleeps = <<>>

\* the operation processRow is waiting for
PendingOperation ==
    CASE rowPc = "orderWait" -> "GetOrderByIncrementID"
      [] rowPc = "shipmentsWait" -> "GetShipmentsByOrderID"
      [] rowPc = "appendWait" -> "AddTrackingToShipment"

\* the operation has built its request and calls c.doRequest(req, &response)
DoRequestCall ==
    /\ Alive /\ rowPc \in {"orderWait", "shipmentsWait", "appendWait"} /\ reqPc = "idle"
    /\ req' = NewRequest(PendingOperation)
    /\ attempts' = 0
    /\ reqPc' = "loop"
    /\ ret' = "none"
    /\ sent' = <<>>
    /\ results' = <<>>
    /\ sleeps' = <<>>
    /\ UNCHANGED <<maxRetries, backoff, pipeVars, valVars, rowVars, renames, fsVars, unread>>

\* doRequest has returned to GetOrderByIncrementID (magento.go:70-81): its
\* error is returned, or the decoded response gives the order or "not found"
OrderResult ==
    /\ Alive /\ rowPc = "orderWait" /\ reqPc = "done"
    /\ Returned
    /\ reqPc' = "idle"
    /\ IF ret # "nil"
       THEN rowPc' = "return" /\ rowErr' = "failed to get order" /\ UNCHANGED order
       ELSE \E r \in SearchResponses :
               IF IsEmptyResponse(r)
               THEN rowPc' = "return" /\ rowErr' = "failed to get order" /\ UNCHANGED order
               ELSE rowPc' = "shipments" /\ order' = {r.items[1]} /\ UNCHANGED rowErr
    /\ UNCHANGED <<fileRows, shipments, issued>>
    /\ UNCHANGED <<maxRetries, backoff, req, attempts, ret, sent, results, sleeps>>
    /\ UNCHANGED <<pipeVars, valVars, renames, fsVars, unread>>

\* doRequest has returned to GetShipmentsByOrderID (magento.go:111-122)
ShipmentsResult ==
    /\ Alive /\ rowPc = "shipmentsWait" /\ reqPc = "done"
    /\ Returned
    /\ reqPc' = "idle"
    /\ IF ret # "nil"
       THEN rowPc' = "return" /\ rowErr' = "failed to get shipments" /\ UNCHANGED shipments
       ELSE \E r \in SearchResponses :
               /\ shipments' = IF IsEmptyResponse(r) THEN <<>> ELSE r.items
               /\ rowPc' = IF Len(shipments') = 0 THEN "return" ELSE "append"
               /\ UNCHANGED rowErr
    /\ UNCHANGED <<fileRows, order, issued>>
    /\ UNCHANGED <<maxRetries, backoff, req, attempts, ret, sent, results, sleeps>>
    /\ UNCHANGED <<pipeVars, valVars, renames, fsVars, unread>>

\* doRequest has returned to AddTrackingToShipment (magento.go:161-167)
AppendResult ==
    /\ Alive /\ rowPc = "appendWait" /\ reqPc = "done"
    /\ Returned
    /\ reqPc' = "idle"
    /\ rowPc' = "return"
    /\ rowErr' = IF ret # "nil" THEN "failed to add tracking" ELSE "nil"
    /\ UNCHANGED <<fileRows, order, shipments, issued>>
    /\ UNCHANGED <<maxRetries, backoff, req, attempts, ret, sent, results, sleeps>>
    /\ UNCHANGED <<pipeVars, valVars, renames, fsVars, unread>>

(***************************************************************************)
(* The row loop of processCSVFile (csv.go:148-166) over the csv.Reader of  *)
(* worker 1's file.  reader.Read() returns a record, a parse error for a   *)
(* line it has consumed (wrong number of fields, a bare quote), the error  *)
(* of the file's Read, which consumes nothing, or io.EOF at the end.       *)
(***************************************************************************)
\* most lines of one file under SpecReader
MaxReadLines == 4
\* largest errorCount followed while the file's Read keeps failing
MaxErrorCount == 5

\* the file is open, its header accepted, and some lines are to be read
InitReaderFile ==
    /\ renames = [p \in Paths |-> <<>>]
    /\ unread \in 0..MaxReadLines
    /\ fileRows = 0
    /\ rowPc = "idle"
    /\ rowErr = "nil"
    /\ order = {}
    /\ shipments = <<>>
    /\ issued = <<>>
    /\ calls = <<>>

\* Read consumes a line: a parse error (errorCount++, continue), or a
\* record that processRow handles with or without an error (rowCount++)
ReadRecord ==
    /\ Alive /\ wPc[1] = "rows" /\ unread > 0
    /\ unread' = unread - 1
    /\ \/ /\ errorCount' = [errorCount EXCEPT ![1] = @ + 1]      \* csv.ParseError
          /\ UNCHANGED rowCount
       \/ /\ rowCount' = [rowCount EXCEPT ![1] = @ + 1]          \* processRow: nil
          /\ UNCHANGED errorCount
       \/ /\ errorCount' = [errorCount EXCEPT ![1] = @ + 1]      \* processRow: error
          /\ rowCount' = [rowCount EXCEPT ![1] = @ + 1]
    /\ UNCHANGED <<mainVars, watchVars, queueVars, wPc, wFile, success, wHeader, histVars>>
    /\ UNCHANGED <<valVars, reqVars, rowVars, renames, fsVars>>

\* the Read of the underlying file fails (an I/O error): bufio hands the
\* error on and forgets it, nothing is consumed; errorCount++, continue
ReadFault ==
    /\ Alive /\ wPc[1] = "rows"
    /\ errorCount[1] < MaxErrorCount
    /\ errorCount' = [errorCount EXCEPT ![1] = @ + 1]
    /\ UNCHANGED <<mainVars, watchVars, queueVars, wPc, wFile, rowCount, success, wHeader,
                   histVars>>
    /\ UNCHANGED sideVars

\* Read returns io.EOF once every line is consumed: break
ReadEOF == unread = 0 /\ ParseEOF(1)

(***************************************************************************)
(* The pipeline.                                                           *)
(***************************************************************************)
Init == InitPipe /\ ValidateIdle /\ RequestIdle /\ RowIdle /\ WatchIdle

Next ==
    \/ ProcessorStart
    \/ WatcherStart
    \/ WatcherStartFail
    \/ WatcherStop
    \/ WatcherStopClose
    \/ ProcessorStop
    \/ ProcessorStopWait
    \/ LoopStop
    \/ LoopEvent
    \/ LoopError
    \/ LoopLogged
    \/ SweepGlob
    \/ SweepIter
    \/ \E q \in Producers : ProcessFileLock(q)
    \/ \E q \in Producers : ProcessFileSkip(q)
    \/ \E q \in Producers : ProcessFileSend(q)
    \/ \E w \in Workers : WorkerRecv(w)
    \/ \E w \in Workers : WorkerExit(w)
    \/ \E w \in Workers : WorkerProcess(w)

Spec == Init /\ [][Next]_vars

(***************************************************************************)
(* processCSVFile step by step, on the file worker 1 has just received.    *)
(* SpecParse follows the row loop up to MaxFileRows rows of a file with    *)
(* one of the headers of PipeHeaders; SpecHeader tries every header of up  *)
(* to MaxHeaderLen columns on files of up to MaxRows rows.                 *)
(***************************************************************************)
\* most rows and most errors counted for one file under SpecParse
MaxFileRows == 100
\* most columns in a header under SpecHeader
MaxHeaderLen == 5

AllHeaders == UNION {[1..n -> ColumnNames] : n \in 1..MaxHeaderLen}

\* the pipeline once worker 1 holds path 1: the watch loop submitted it and
\* the sweep found nothing
InitParse ==
    /\ mainPc = "running"
    /\ maxConcurrency = 1
    /\ panicked = FALSE
    /\ isRunning = TRUE
    /\ stopChan = "open"
    /\ fsWatcher = "open"
    /\ prodPc = [loop |-> "select", sweep |-> "returned"]
    /\ prodPath = [q \in Producers |-> {}]
    /\ sweepFiles = <<>>
    /\ processedFiles = {1}
    /\ workChan = <<>>
    /\ chanClosed = FALSE
    /\ mutex = "free"
    /\ wPc = [w \in Workers |-> IF w = 1 THEN "open" ELSE "unborn"]
    /\ wFile = [w \in Workers |-> IF w = 1 THEN {1} ELSE {}]
    /\ rowCount = [w \in Workers |-> 0]
    /\ errorCount = [w \in Workers |-> 0]
    /\ success = [w \in Workers |-> FALSE]
    /\ wHeader = [w \in Workers |-> <<>>]
    /\ enqCount = [p \in Paths |-> IF p = 1 THEN 1 ELSE 0]
    /\ parseCount = [p \in Paths |-> 0]
    /\ relocCount = [p \in Paths |-> 0]
    /\ outcome = [p \in Paths |-> "none"]
    /\ closedBusy = FALSE

InitP == InitParse /\ ValidateIdle /\ RequestIdle /\ RowIdle /\ WatchIdle

NextP ==
    \/ ParseOpen(1)
    \/ ParseHeader(1, PipeHeaders)
    \/ ParseRow(1, MaxFileRows)
    \/ ParseEOF(1)

SpecParse == InitP /\ [][NextP]_vars

NextH ==
    \/ ParseOpen(1)
    \/ ParseHeader(1, AllHeaders)
    \/ ParseRow(1, MaxRows)
    \/ ParseEOF(1)

SpecHeader == InitP /\ [][NextH]_vars

(***************************************************************************)
(* Validate on every record within the bounds.                             *)
(***************************************************************************)
InitV == InitPipe /\ maxConcurrency = 0 /\ InitValidate /\ RequestIdle /\ RowIdle /\ WatchIdle

NextV == CallValidate

SpecValidate == InitV /\ [][NextV]_vars

(***************************************************************************)
(* doRequest on every request, configuration and sequence of responses     *)
(* within the bounds.                                                      *)
(***************************************************************************)
InitR == InitPipe /\ maxConcurrency = 0 /\ ValidateIdle /\ InitRequest /\ RowIdle /\ WatchIdle

NextR ==
    \/ DoTransportError
    \/ DoErrorStatus
    \/ DoSuccess
    \/ DoExhausted

SpecRequest == InitR /\ [][NextR]_vars

(***************************************************************************)
(* processCSVFile with processRow step by step: files of up to             *)
(* MaxFileLines rows drawn from RowRecords.                                *)
(***************************************************************************)
InitRows == InitParse /\ ValidateIdle /\ RequestIdle /\ InitRowFile /\ WatchIdle

NextRows ==
    \/ ParseOpen(1)
    \/ ParseHeader(1, PipeHeaders)
    \/ ReadRow(MaxFileLines)
    \/ RowValidate
    \/ OrderCall
    \/ OrderReturn
    \/ ShipmentsCall
    \/ ShipmentsReturn
    \/ AppendCall
    \/ AppendReturn
    \/ RowReturn
    \/ RowsEOF

SpecRows == InitRows /\ [][NextRows]_vars

(***************************************************************************)
(* One worker step by step, with the watch loop submitting paths to it:    *)
(* worker 1 holds path 1, parses it, relocates it and takes the next path. *)
(***************************************************************************)
NextWorker ==
    \/ ParseOpen(1)
    \/ ParseHeader(1, PipeHeaders)
    \/ ParseRow(1, MaxRows)
    \/ ParseEOF(1)
    \/ WorkerRelocate(1)
    \/ WorkerRecv(1)
    \/ LoopEvent
    \/ ProcessFileLock("loop")
    \/ ProcessFileSkip("loop")
    \/ ProcessFileSend("loop")

SpecWorker == InitP /\ [][NextWorker]_vars

(***************************************************************************)
(* The worker pool at work: Start, the watch loop submitting paths, and    *)
(* the workers, before any shutdown.                                       *)
(***************************************************************************)
NextPool ==
    \/ ProcessorStart
    \/ WatcherStart
    \/ LoopEvent
    \/ ProcessFileLock("loop")
    \/ ProcessFileSkip("loop")
    \/ ProcessFileSend("loop")
    \/ \E w \in Workers : WorkerRecv(w)
    \/ \E w \in Workers : WorkerProcess(w)

SpecPool == Init /\ [][NextPool]_vars

(***************************************************************************)
(* The watcher at work on a directory of files: the watch loop and the     *)
(* startup sweep evaluate paths and submit them, and one worker takes a    *)
(* path from the channel.                                                  *)
(***************************************************************************)
InitWatch == InitPipe /\ maxConcurrency = 1 /\ ValidateIdle /\ RequestIdle /\ RowIdle
             /\ InitWatchDir

NextWatch ==
    \/ ProcessorStart
    \/ WatcherStart
    \/ FileChange
    \/ EventsCase
    \/ SweepGlobCSV
    \/ SweepRange
    \/ \E q \in Producers : IsTargetFile(q)
    \/ \E q \in Producers : ReadyStat1(q)
    \/ \E q \in Producers : ReadyStat2(q)
    \/ \E q \in Producers : ProcessFileLock(q)
    \/ \E q \in Producers : ProcessFileSkip(q)
    \/ \E q \in Producers : ProcessFileSend(q)
    \/ \E w \in Workers : WorkerRecv(w)

SpecWatch == InitWatch /\ [][NextWatch]_vars

(***************************************************************************)
(* The watch loop alone, from Watcher.Start to Watcher.Stop: events,       *)
(* notification errors and the stop.                                       *)
(***************************************************************************)
NextLoop ==
    \/ ProcessorStart
    \/ WatcherStart
    \/ WatcherStop
    \/ WatcherStopClose
    \/ FileChange
    \/ LoopStop
    \/ EventsCase
    \/ ErrorsCase
    \/ IsTargetFile("loop")
    \/ ReadyStat1("loop")
    \/ ReadyStat2("loop")
    \/ ProcessFileLock("loop")
    \/ ProcessFileSkip("loop")
    \/ ProcessFileSend("loop")
    \/ \E w \in Workers : WorkerRecv(w)

SpecLoop == InitWatch /\ [][NextLoop]_vars

(***************************************************************************)
(* The row loop over a reader whose reads consume the file or fail.        *)
(***************************************************************************)
InitReader == InitParse /\ ValidateIdle /\ RequestIdle /\ InitReaderFile /\ WatchIdle

NextReader ==
    \/ ParseOpen(1)
    \/ ParseHeader(1, PipeHeaders)
    \/ ReadRecord
    \/ ReadFault
    \/ ReadEOF

SpecReader == InitReader /\ [][NextReader]_vars

(***************************************************************************)
(* The pipeline under fair scheduling.  The Go scheduler runs every        *)
(* goroutine that can take a step, and a sync.Mutex hands itself to a      *)
(* waiter that has waited long enough (starvation mode), so a goroutine    *)
(* that can take a step again and again does take it.  Signals and         *)
(* file-system notifications come from outside and are under no fairness.  *)
(***************************************************************************)
Fairness ==
    /\ WF_vars(ProcessorStart)
    /\ WF_vars(WatcherStart)
    /\ WF_vars(WatcherStopClose)
    /\ WF_vars(ProcessorStop)
    /\ WF_vars(ProcessorStopWait)
    /\ WF_vars(LoopStop)
    /\ WF_vars(LoopLogged)
    /\ WF_vars(SweepGlob)
    /\ WF_vars(SweepIter)
    /\ \A q \in Producers :
          /\ SF_vars(ProcessFileLock(q))
          /\ WF_vars(ProcessFileSkip(q))
          /\ WF_vars(ProcessFileSend(q))
    /\ \A w \in Workers :
          /\ SF_vars(WorkerRecv(w))
          /\ WF_vars(WorkerExit(w))
          /\ WF_vars(WorkerProcess(w))

SpecFair == Init /\ [][Next]_vars /\ Fairness

(***************************************************************************)
(* The rows of one file with every remote operation carried out by         *)
(* doRequest.                                                              *)
(***************************************************************************)
InitRemote == InitParse /\ ValidateIdle /\ InitClient /\ InitRowFile /\ WatchIdle

NextRemote ==
    \/ ParseOpen(1)
    \/ ParseHeader(1, PipeHeaders)
    \/ ReadRowFrom(MaxFileLines, RemoteRecords)
    \/ RowValidate
    \/ OrderCall
    \/ ShipmentsCall
    \/ AppendCall
    \/ DoRequestCall
    \/ DoTransportError
    \/ DoErrorStatus
    \/ DoSuccess
    \/ DoExhausted
    \/ OrderResult
    \/ ShipmentsResult
    \/ AppendResult
    \/ RowReturn
    \/ RowsEOF

SpecRemote == InitRemote /\ [][NextRemote]_vars

(***************************************************************************)
(* The claims.                                                             *)
(***************************************************************************)
OnChannel(p) == \E i \in 1..Len(workChan) : workChan[i] = p
Holders(p) == {w \in Workers : p \in wFile[w]}

\* C1: whatever the interleaving of the ProcessFile calls of the sweep and
\* of the watch loop, a path is sent on workChan at most once; a path is in
\* the ledger exactly when it has been sent once or its first submit is at
\* the send, and a later submit of it changes neither ledger nor channel.
C1_SubmitEnqueuesOnce ==
    \A p \in Paths :
        /\ enqCount[p] <= 1
        /\ enqCount[p] = 1 => p \in processedFiles
        /\ p \in processedFiles =>
              \/ enqCount[p] = 1
              \/ \E q \in Producers : prodPc[q] = "send" /\ prodPath[q] = {p}
        /\ Cardinality({i \in 1..Len(workChan) : workChan[i] = p}) <= 1

\* a second submit of a path that was enqueued once is being skipped while
\* the other producer is inside ProcessFile too
C1_Witness ==
    \E p \in Paths :
        /\ enqCount[p] = 1
        /\ prodPc["sweep"] = "skip" /\ prodPath["sweep"] = {p}
        /\ prodPc["loop"] = "lock"

\* C2: a path is in the hands of at most one worker, is parsed at most once
\* and relocated at most once; once it has an outcome it is neither on the
\* channel nor in any worker's hands again, whatever is submitted later.
C2_ProcessedAtMostOnce ==
    \A p \in Paths :
        /\ Cardinality(Holders(p)) <= 1
        /\ parseCount[p] <= 1
        /\ relocCount[p] <= 1
        /\ Holders(p) # {} => ~OnChannel(p) /\ parseCount[p] = 0 /\ outcome[p] = "none"
        /\ outcome[p] # "none" =>
              Holders(p) = {} /\ ~OnChannel(p) /\ parseCount[p] = 1 /\ relocCount[p] = 1

\* a path already moved to the failed directory is submitted again, and the
\* submit is skipped, while two workers are busy with other paths or idle
C2_Witness ==
    \E p \in Paths :
        /\ outcome[p] = "failed"
        /\ prodPc["loop"] = "skip" /\ prodPath["loop"] = {p}
        /\ maxConcurrency >= 2

\* every worker is gone, the channel is empty and every path ever sent has
\* been parsed and had its relocation attempted
Drained ==
    /\ \A w \in Workers : wPc[w] \in {"unborn", "exited"} /\ wFile[w] = {}
    /\ workChan = <<>>
    /\ \A p \in Paths : enqCount[p] >= 1 =>
          parseCount[p] = 1 /\ relocCount[p] = 1 /\ outcome[p] # "none"

\* C3: when CSVProcessor.Stop has returned, every worker has exited and
\* every path that was on the channel or in a worker's hands at the close
\* has been parsed and had its relocation attempted.  Start spawns
\* MaxConcurrency workers and nothing keeps that number positive: with
\* none, Stop returns at once and leaves the queued paths behind.
C3_StopDrains == mainPc = "done" => Drained

\* the drain does hold whenever Start spawned at least one worker
StopDrainsWithWorkers == (mainPc = "done" /\ maxConcurrency >= 1) => Drained

HeaderAccepted == wHeader[1] # <<>> /\ RequiredColumns \subseteq Range(wHeader[1])

\* C5: once the rows of a file with a valid header are consumed, the
\* verdict is success exactly when errorCount = 0 or errorCount / rowCount
\* is below 5 percent: 100 rows with 4 errors pass, 100 rows with 6 errors
\* fail, 20 rows with 1 error (5 percent) fail, no row at all passes.
C5_VerdictThreshold ==
    (wPc[1] = "relocate" /\ HeaderAccepted) =>
        /\ success[1] <=> (errorCount[1] = 0
                            \/ (rowCount[1] > 0 /\ 20 * errorCount[1] < rowCount[1]))
        /\ (rowCount[1] = 100 /\ errorCount[1] = 4) => success[1]
        /\ (rowCount[1] = 100 /\ errorCount[1] = 6) => ~success[1]
        /\ (rowCount[1] = 20 /\ errorCount[1] = 1) => ~success[1]
        /\ (rowCount[1] = 0 /\ errorCount[1] = 0) => success[1]

\* a file of 100 rows with 4 errors has been judged successful
C5_Witness ==
    /\ wPc[1] = "relocate" /\ HeaderAccepted
    /\ rowCount[1] = 100 /\ errorCount[1] = 4 /\ success[1]

\* C6: a header that lacks one of the four required columns fails the file
\* before any row is read or processed; a header that has the four, in any
\* position and with any extra columns, lets the row loop run and the
\* verdict is the one of the row loop.
C6_HeaderCheck ==
    wHeader[1] # <<>> =>
        IF RequiredColumns \subseteq Range(wHeader[1])
        THEN /\ wPc[1] \in {"rows", "relocate"}
             /\ wPc[1] = "relocate" => (success[1] <=> JudgeFile(errorCount[1], rowCount[1]))
        ELSE /\ wPc[1] = "relocate"
             /\ ~success[1]
             /\ rowCount[1] = 0 /\ errorCount[1] = 0

\* a file whose header has an extra column and lacks carrier_code was
\* rejected with no row counted
C6_Witness ==
    /\ wHeader[1] = <<"title", "extra", "order_number", "tracking_number">>
    /\ wPc[1] = "relocate" /\ ~success[1] /\ rowCount[1] = 0

\* a field is empty after trimming: it holds white space only
Blank(str) == \A i \in 1..Len(str) : str[i] \in WhiteSpace

FieldOrder == <<"OrderNumber", "TrackingNumber", "CarrierCode", "Title">>

FieldError ==
    [OrderNumber |-> "order number is required",
     TrackingNumber |-> "tracking number is required",
     CarrierCode |-> "carrier code is required",
     Title |-> "title is required"]

BlankFields == {k \in 1..Len(FieldOrder) : Blank(trackingInfo[FieldOrder[k]])}

\* C7: Validate accepts exactly the records whose four fields are all
\* non-empty after trimming, and otherwise returns the error that names the
\* first empty field in the order order number, tracking number, carrier
\* code, title, whatever the later fields hold.
C7_ValidateNamesFirstEmpty ==
    validateErr \notin {"idle", "pending"} =>
        IF BlankFields = {}
        THEN validateErr = "nil"
        ELSE \E k \in BlankFields :
                /\ \A j \in BlankFields : k <= j
                /\ validateErr = FieldError[FieldOrder[k]]

\* a record whose tracking number is white space and whose title is empty
\* was rejected for its tracking number
C7_Witness ==
    /\ trackingInfo = [OrderNumber |-> <<" ", "x">>, TrackingNumber |-> <<" ">>,
                       CarrierCode |-> <<"x">>, Title |-> <<>>]
    /\ validateErr = "tracking number is required"

\* an attempt that failed: a transport error or a status outside 200..299
AttemptFailed(r) == r[1] = "error" \/ r[2] \notin 200..299

ErrorReturns == {"request failed after attempts", "api error", "max retries exceeded"}

\* C8: when every attempt fails, by a transport error or an error status in
\* any mix, doRequest makes exactly maxRetries attempts, sleeps backoff * k
\* after the k-th failure for each k < maxRetries and not after the last,
\* and returns an error.
C8_RetriesExhausted ==
    (reqPc = "done" /\ \A i \in 1..Len(results) : AttemptFailed(results[i])) =>
        /\ attempts = maxRetries
        /\ Len(results) = maxRetries
        /\ Len(sleeps) = IF maxRetries = 0 THEN 0 ELSE maxRetries - 1
        /\ \A k \in 1..Len(sleeps) : sleeps[k] = backoff * k
        /\ ret \in ErrorReturns

\* three attempts failed, by a transport error, a 500 and a 404, with the
\* sleeps backoff and 2 * backoff between them
C8_Witness ==
    /\ reqPc = "done" /\ maxRetries = 3 /\ backoff = 2
    /\ results = << <<"error", 0>>, <<"response", 500>>, <<"response", 404>> >>
    /\ sleeps = <<2, 4>>
    /\ ret = "api error"

\* C9: the first attempt that returns a success status is the last one:
\* doRequest returns the result of decoding it after exactly that many
\* attempts.
C9_SuccessEndsRetries ==
    \A k \in 1..Len(results) :
        ~AttemptFailed(results[k]) =>
            /\ k = Len(results)
            /\ attempts = k
            /\ reqPc = "done"
            /\ ret \in {"nil", "decode error"}

\* the second of three allowed attempts succeeded and doRequest returned nil
C9_Witness ==
    /\ maxRetries = 3 /\ Len(results) = 2
    /\ AttemptFailed(results[1]) /\ results[2] = <<"response", 200>>
    /\ attempts = 2 /\ reqPc = "done" /\ ret = "nil"

\* C10: every attempt passes to httpClient.Do the request of the first
\* attempt: same method, same URL, same body.
C10_RetriesSendSameRequest ==
    \A k \in 1..Len(sent) : sent[k] = sent[1]

\* the operations of this row's remote calls, in order
IssuedOps == [i \in 1..Len(issued) |-> issued[i].op]

\* what processRow has done when it is about to return
RowProtocol ==
    IF BlankFields # {}
    THEN issued = <<>> /\ rowErr # "nil"
    ELSE /\ Len(issued) >= 1
         /\ issued[1] = [op |-> "GetOrderByIncrementID", arg |-> trackingInfo.OrderNumber]
         /\ IF order = {}
            THEN IssuedOps = <<"GetOrderByIncrementID">> /\ rowErr # "nil"
            ELSE /\ Len(issued) >= 2
                 /\ issued[2].op = "GetShipmentsByOrderID" /\ issued[2].arg \in order
                 /\ IF shipments = <<>>
                    THEN Len(issued) = 2
                    ELSE /\ Len(issued) = 3
                         /\ issued[3].op = "AddTrackingToShipment"
                         /\ issued[3].arg.shipment = shipments[1]
                         /\ issued[3].arg.track.TrackNumber = trackingInfo.TrackingNumber
                         /\ issued[3].arg.track.Title = trackingInfo.Title
                         /\ issued[3].arg.track.CarrierCode = trackingInfo.CarrierCode

\* C11: per row, a record that fails validation makes no remote call and is
\* a row error; otherwise the order is looked up, and an order that is not
\* found is a row error with no further call; an order without shipments is
\* a skip, which makes no append and does not raise errorCount; otherwise
\* exactly one append is issued, to the first shipment returned, with the
\* row's tracking number, title and carrier code.
C11_RowProtocol ==
    /\ [](rowPc = "return" => RowProtocol)
    /\ [][(rowPc = "return" /\ rowPc' = "idle") =>
            /\ (BlankFields # {} \/ order = {}) => errorCount'[1] = errorCount[1] + 1
            /\ (order # {} /\ shipments = <<>> /\ rowErr = "nil") =>
                  (errorCount'[1] = errorCount[1] /\ Len(issued) = 2)
         ]_vars

\* a row was appended to the first of two shipments, with its own fields
C11_Witness ==
    /\ rowPc = "return" /\ rowErr = "nil"
    /\ shipments = <<2, 1>> /\ Len(issued) = 3 /\ issued[3].arg.shipment = 2
    /\ trackingInfo.TrackingNumber = <<" ", "y">> /\ trackingInfo.Title = <<"x">>
    /\ issued[3].arg.track.TrackNumber = <<" ", "y">>

\* C18: within one file the rows are processed one at a time and in file
\* order: a remote call starts only when every earlier call of the file has
\* returned, and never belongs to an earlier row than a call before it; an
\* error of a row does not end the row loop, so that when the file is
\* judged every row of it has been processed.
C18_RowsInOrder ==
    /\ \A i, j \in 1..Len(calls) :
          i < j => (calls[i][3] /\ calls[i][1] <= calls[j][1])
    /\ \A i \in 1..Len(calls) : calls[i][1] <= rowCount[1]
    /\ rowPc = "idle" => \A i \in 1..Len(calls) : calls[i][3] /\ calls[i][1] < rowCount[1]
    /\ (wPc[1] = "relocate" /\ HeaderAccepted) => (rowCount[1] = fileRows /\ rowPc = "idle")

\* the first row was an error after its order lookup, and the second row
\* is at its append
C18_Witness ==
    /\ fileRows = 2 /\ rowCount[1] = 1 /\ errorCount[1] = 1
    /\ rowPc = "appendWait"
    /\ Len(calls) = 4
    /\ calls[1] = <<0, "GetOrderByIncrementID", TRUE>>
    /\ calls[4] = <<1, "AddTrackingToShipment", FALSE>>

\* C12: after the parse the worker calls os.Rename exactly once, with the
\* processed directory when the file was judged successful and the failed
\* directory otherwise, and the base name of the file.  If the rename fails
\* the file is left where it is, the worker is back at the receive, and
\* the path, which stays in the ledger, is not sent on the channel again.
C12_OneRelocation ==
    /\ [](\A p \in Paths :
            /\ relocCount[p] <= 1
            /\ relocCount[p] = 1 <=> outcome[p] # "none"
            /\ relocCount[p] = 1 <=> renames[p] # <<>>
            /\ relocCount[p] = 1 => parseCount[p] = 1
            /\ outcome[p] = "left" =>
                  /\ p \in processedFiles /\ enqCount[p] = 1
                  /\ ~OnChannel(p) /\ Holders(p) = {})
    /\ [][(wPc[1] = "relocate" /\ wPc'[1] # "relocate") =>
            /\ wPc'[1] = "recv"
            /\ \A p \in wFile[1] :
                  /\ relocCount'[p] = relocCount[p] + 1
                  /\ renames'[p] = <<IF success[1] THEN "processed" ELSE "failed", p>>
                  /\ outcome'[p] \in {renames'[p][1], "left"}
         ]_vars

\* the rename of path 1 to the failed directory failed; the worker now
\* parses path 2 while a new event on path 1 is skipped
C12_Witness ==
    /\ outcome[1] = "left" /\ renames[1] = <<"failed", 1>>
    /\ wFile[1] = {2} /\ wPc[1] = "rows"
    /\ prodPc["loop"] = "skip" /\ prodPath["loop"] = {1}

\* C15: the channel never holds more paths than its capacity (100 in the
\* program, WorkChanCap here); a send on a full channel does not complete:
\* every send that completes found room and adds one path, so that a
\* sender that met a full channel enqueues only after a worker's receive.
C15_ChannelBounded ==
    /\ [](Len(workChan) <= WorkChanCap)
    /\ [][enqCount' # enqCount =>
            /\ Len(workChan) < WorkChanCap
            /\ Len(workChan') = Len(workChan) + 1
         ]_vars
    /\ [][\A q \in Producers :
            (prodPc[q] = "send" /\ Len(workChan) = WorkChanCap /\ ~chanClosed) =>
                (prodPc'[q] = "send" /\ mutex' = q)
         ]_vars

\* the channel is full, the sweep waits at its send with the mutex held
\* and the watch loop waits for the mutex, while workers are there
C15_Witness ==
    /\ Len(workChan) = WorkChanCap /\ ~chanClosed
    /\ prodPc["sweep"] = "send" /\ mutex = "sweep"
    /\ prodPc["loop"] = "lock"
    /\ maxConcurrency >= 1

\* Watcher.Stop has returned
WatcherStopped == mainPc \in {"watcherStopped", "waiting", "done"}

\* C16: once Watcher.Stop has returned, neither the watch loop nor the
\* startup sweep calls ProcessFile with a further path, and nothing more
\* is recorded in the ledger or sent on the channel.  Stop closes stopChan
\* and the fsnotify watcher and waits for nobody: the sweep never looks at
\* stopChan, and a handler that has its path goes on to ProcessFile.
C16_StopEndsSubmissions ==
    [][WatcherStopped =>
          /\ \A q \in Producers : prodPc'[q] = "lock" => prodPc[q] = "lock"
          /\ processedFiles' = processedFiles
          /\ enqCount' = enqCount
      ]_vars

\* C17: in the shutdown no send is performed on, or left waiting on, the
\* closed work channel.  CSVProcessor.Stop closes the channel while a
\* producer that Watcher.Stop did not wait for can be inside ProcessFile,
\* and its send panics.
C17_NoSendOnClosedChannel ==
    /\ ~panicked
    /\ chanClosed => \A q \in Producers : prodPc[q] # "send"

\* C20: Start spawns exactly MaxConcurrency workers, so at most
\* MaxConcurrency files are in the hands of workers at any moment; and a
\* worker that is busy with a file, sleeping in a backoff or not, does not
\* hold up the others: whatever the other workers do, a worker at the
\* receive can take the next queued path and a worker with a file can
\* finish it.
C20_WorkerPool ==
    /\ Cardinality({w \in Workers : wPc[w] # "unborn"}) =
          IF mainPc = "init" THEN 0 ELSE maxConcurrency
    /\ Cardinality({w \in Workers : wFile[w] # {}}) <= maxConcurrency
    /\ \A w \in Workers :
          /\ (Alive /\ wPc[w] = "recv" /\ workChan # <<>>) => ENABLED WorkerRecv(w)
          /\ (Alive /\ wPc[w] = "open") => ENABLED WorkerProcess(w)

\* with MaxConcurrency 2, worker 2 has taken a path while worker 1 is
\* still busy with another one
C20_Witness ==
    /\ maxConcurrency = 2
    /\ wPc[1] = "open" /\ wPc[2] = "open"
    /\ wFile[1] # {} /\ wFile[2] # {} /\ wFile[1] # wFile[2]

\* C13: a producer calls ProcessFile for a path only after isTargetFile
\* saw a regular file (no stat error, not a directory) whose base name
\* matches the configured pattern and after isFileReady's two stats, taken
\* a settle interval apart, returned the same size and the same
\* modification time.  A path dropped by one of these checks leaves the
\* ledger as it was: a path is in the ledger only if it was sent on the
\* channel or its send is under way, so a later event on a path dropped as
\* unstable is evaluated afresh and can dispatch it.
C13_SubmitOnlyStableTargets ==
    /\ [][ \A q \in Producers :
              /\ (prodPc[q] # "lock" /\ prodPc'[q] = "lock") =>
                    \E p \in prodPath'[q] :
                       /\ targetInfo'[q].kind = "file"
                       /\ MatchString(filePattern, FileName(p))
                       /\ initialInfo'[q].kind \in {"file", "dir"}
                       /\ currentInfo'[q].kind \in {"file", "dir"}
                       /\ initialInfo'[q].size = currentInfo'[q].size
                       /\ initialInfo'[q].modTime = currentInfo'[q].modTime
              /\ (prodPc[q] \in {"target", "stat1", "stat2"} /\ prodPc'[q] = AfterSubmit(q)) =>
                    processedFiles' = processedFiles
         ]_vars
    /\ [](\A p \in Paths :
             p \in processedFiles =>
                \/ enqCount[p] >= 1
                \/ \E q \in Producers : prodPc[q] = "send" /\ prodPath[q] = {p})

\* a path that isFileReady once found changed between its two stats was
\* evaluated again on a later event and sent on the channel
C13_Witness ==
    \E p \in Paths : p \in unstableDrops /\ enqCount[p] = 1 /\ p \in processedFiles

\* C14: once the startup sweep has returned over a directory that nobody
\* changed since Start, every regular file of the directory whose base name
\* matches the configured pattern was submitted (it is in the ledger),
\* whatever the configured pattern is.  This does not hold: the sweep lists
\* the directory with the fixed pattern "*.csv" and applies the configured
\* pattern to that list only, so with a pattern for another extension it
\* submits nothing.
C14_SweepSubmitsAllMatching ==
    (prodPc["sweep"] = "returned" /\ changes = 0) =>
        \A p \in Paths :
           (fileStat[p].kind = "file" /\ MatchString(filePattern, FileName(p))) =>
              p \in processedFiles

\* the sweep does submit every matching file when the configured pattern
\* is one for the extension csv
SweepSubmitsMatchingCSV == filePattern.ext = "csv" => C14_SweepSubmitsAllMatching

\* C19: when the Errors channel delivers an error the watch loop logs it
\* and is back at its select: the step leaves the loop where it is and
\* changes nothing of the watcher or the pipeline, and at the select with
\* the watcher open the next event can be received whether or not an error
\* was logged before.  The loop returns only from the select, and only
\* once stopChan or the fsnotify watcher (its Events and Errors channels)
\* is closed, which only Watcher.Stop does.
C19_ErrorKeepsLoopRunning ==
    /\ [][ /\ (~errSeen /\ errSeen') =>
                 /\ prodPc["loop"] = "select" /\ prodPc'["loop"] = "select"
                 /\ UNCHANGED <<pipeVars, fileStat, unstableDrops>>
           /\ (prodPc["loop"] # "returned" /\ prodPc'["loop"] = "returned") =>
                 /\ prodPc["loop"] = "select"
                 /\ stopChan = "closed" \/ fsWatcher = "closed"
         ]_vars
    /\ []((stopChan = "closed" \/ fsWatcher = "closed") =>
             mainPc \notin {"init", "procStarted", "running"})
    /\ []((Alive /\ prodPc["loop"] = "select" /\ fsWatcher = "open") => ENABLED EventsCase)

\* after a notification error was logged the loop took an event and its
\* handler has submitted the event's path
C19_Witness ==
    /\ errSeen /\ stopChan = "open"
    /\ prodPc["loop"] = "send" /\ prodPath["loop"] # {}

\* C24: at every point of the row loop errorCount <= rowCount, so that
\* the rate errorCount / rowCount lies between 0 and 1.  This does not
\* hold: a Read that fails raises errorCount and leaves rowCount alone.
C24_ErrorsAtMostRows ==
    (wPc[1] \in {"rows", "relocate"} /\ HeaderAccepted) => errorCount[1] <= rowCount[1]

\* C26: every Read of the row loop that does not end the loop consumes
\* input, so that the loop ends after finitely many reads.  This does not
\* hold: the error of the file's Read is counted and the same Read is
\* repeated, with nothing consumed.
C26_EveryReadConsumes ==
    [][ (wPc[1] = "rows" /\ wPc'[1] = "rows"
            /\ (errorCount'[1] # errorCount[1] \/ rowCount'[1] # rowCount[1])) =>
           unread' < unread
      ]_vars

\* C25: the ledger only grows and covers all work.  No step takes a path
\* out of the ledger; a path is sent on the channel only when the ledger
\* holds it already; and every path that is on the channel, in a worker's
\* hands or relocated (or left in place by a failed rename) is in the ledger.
C25_LedgerCoversWork ==
    /\ [][ /\ processedFiles \subseteq processedFiles'
           /\ \A p \in Paths : enqCount'[p] > enqCount[p] => p \in processedFiles
         ]_vars
    /\ [](\A p \in Paths :
             (OnChannel(p) \/ Holders(p) # {} \/ outcome[p] # "none") => p \in processedFiles)

\* one path was relocated and the other waits on the channel, both are in
\* the ledger, and a new event for the relocated one is being skipped
C25_Witness ==
    \E p \in Paths : \E r \in Paths :
        /\ outcome[p] \in {"processed", "failed"} /\ OnChannel(r) /\ p # r
        /\ {p, r} \subseteq processedFiles
        /\ prodPc["loop"] = "skip" /\ prodPath["loop"] = {p} /\ mutex = "loop"

\* C23: ProcessFile holds the ledger mutex from its Lock to the return:
\* a producer at the ledger test, at the skip or at the send holds it, and
\* a producer gets past Lock only by taking the free mutex, also for a path
\* that is in the ledger already.  A sender that waits on the full channel
\* keeps the mutex until a worker has taken an item from the channel, so
\* every other submit waits that long.  No step of a worker changes the
\* mutex.
C23_SendHoldsMutex ==
    /\ [](\A q \in Producers : prodPc[q] \in {"skip", "send"} => mutex = q)
    /\ [][ /\ \A q \in Producers :
                /\ (prodPc[q] = "lock" /\ prodPc'[q] # "lock") =>
                      (mutex = "free" /\ mutex' = q)
                /\ (prodPc[q] = "send" /\ Len(workChan) = WorkChanCap /\ ~chanClosed) =>
                      (mutex' = q /\ \A r \in Producers : prodPc[r] = "lock" => prodPc'[r] = "lock")
           /\ (wPc' # wPc \/ wFile' # wFile) => mutex' = mutex
         ]_vars

\* the watch loop waits at its send on the full channel with the mutex,
\* and the sweep waits at Lock to submit a path that is in the ledger and
\* was sent before
C23_Witness ==
    /\ Len(workChan) = WorkChanCap /\ ~chanClosed
    /\ prodPc["loop"] = "send" /\ mutex = "loop"
    /\ prodPc["sweep"] = "lock"
    /\ \E p \in prodPath["sweep"] : p \in processedFiles /\ enqCount[p] = 1

\* C22: under fair scheduling and with at least one worker, every path in
\* the ledger is eventually taken by a worker and gets its outcome (moved
\* to processed, moved to failed, or left in place by a failed rename),
\* unless the channel was closed before the path was sent on it.  This does
\* not hold: a producer that Watcher.Stop left running sends on the closed
\* channel, the panic ends the process, and the paths that were sent before
\* the close and are still queued or in a worker's hands get no outcome.
C22_LedgerPathsReachOutcome ==
    \A p \in Paths :
        (p \in processedFiles /\ maxConcurrency >= 1) ~>
            (outcome[p] # "none" \/ (chanClosed /\ enqCount[p] = 0))

\* short of that panic the paths of the ledger do reach their outcome:
\* producers and workers do not deadlock, full channel or not
LedgerPathsReachOutcomeOrPanic ==
    \A p \in Paths :
        (p \in processedFiles /\ maxConcurrency >= 1) ~>
            (outcome[p] # "none" \/ (chanClosed /\ enqCount[p] = 0) \/ panicked)

\* C21: a response with a success status whose body cannot be decoded
\* ends doRequest: the decode error is returned by the attempt that got the
\* response, every attempt before it failed and none follows it, however
\* many attempts maxRetries would still allow; the operation hands the
\* error on, processRow returns an error and the row loop counts it.
C21_DecodeErrorNotRetried ==
    /\ [](ret = "decode error" =>
             /\ reqPc # "loop"
             /\ attempts = Len(results) /\ attempts >= 1 /\ attempts <= maxRetries
             /\ ~AttemptFailed(results[attempts])
             /\ \A k \in 1..(attempts - 1) : AttemptFailed(results[k]))
    /\ []((ret = "decode error" /\ rowPc = "return" /\ issued # <<>>) =>
             /\ rowErr # "nil"
             /\ calls[Len(calls)] = <<rowCount[1], issued[Len(issued)].op, TRUE>>)
    /\ [][ (ret = "decode error" /\ rowPc = "return" /\ rowPc' = "idle") =>
              /\ errorCount'[1] = errorCount[1] + 1
              /\ rowCount'[1] = rowCount[1] + 1
         ]_vars

\* the lookup of shipments got a success status at its first attempt of
\* two, the body did not decode, and processRow returns the error
C21_Witness ==
    /\ maxRetries = 2 /\ attempts = 1 /\ ret = "decode error"
    /\ results = << <<"response", 200>> >>
    /\ rowPc = "return" /\ rowErr = "failed to get shipments"
    /\ IssuedOps = <<"GetOrderByIncrementID", "GetShipmentsByOrderID">>

\* C27: with maxRetries <= 0 doRequest passes no request to httpClient.Do
\* and returns "max retries exceeded", so the first operation of every
\* valid row, the order lookup, fails: the row makes that one call and no
\* other, processRow returns an error, and when the file is read every row
\* has been counted as an error.
C27_NoRetriesNoRequests ==
    maxRetries <= 0 =>
        /\ sent = <<>> /\ results = <<>> /\ sleeps = <<>> /\ attempts = 0
        /\ reqPc = "done" => ret = "max retries exceeded"
        /\ rowPc = "return" =>
              /\ rowErr # "nil"
              /\ BlankFields = {} =>
                    (IssuedOps = <<"GetOrderByIncrementID">> /\ rowErr = "failed to get order")
        /\ \A i \in 1..Len(calls) : calls[i][2] = "GetOrderByIncrementID"
        /\ wPc[1] = "rows" => errorCount[1] >= rowCount[1]
        /\ (wPc[1] = "relocate" /\ HeaderAccepted) =>
              (errorCount[1] >= rowCount[1] /\ (rowCount[1] > 0 => ~success[1]))

\* with max_retries 0 a file of two valid rows is read to its end: two
\* order lookups were called, both rows are errors, the file is failed
C27_Witness ==
    /\ maxRetries = 0
    /\ wPc[1] = "relocate" /\ rowCount[1] = 2 /\ errorCount[1] = 2 /\ ~success[1]
    /\ Len(calls) = 2 /\ calls[2] = <<1, "GetOrderByIncrementID", TRUE>>

====
